---------------------------- MODULE Spec2Model ----------------------------
(***************************************************************************)
(* A model of the folder-tree core of the video browser: the tree builder  *)
(* and the natural sort (fileUtils), the search, the snapshot codec and    *)
(* the event handlers of the FileExplorer component, the playlist of the   *)
(* App component and the object URLs of the VideoPlayer component.         *)
(*                                                                         *)
(* Strings are sequences of characters.  A character is a one-letter       *)
(* string; the four CJK characters of the labelled-unit patterns are       *)
(* written "DI" (U+7B2C), "JIE" (U+8282), "ZHANG" (U+7AE0), "KE" (U+8BFE). *)
(* An optional property that is absent (undefined) is a record field that  *)
(* is missing.                                                             *)
(***************************************************************************)
EXTENDS Integers, Sequences, FiniteSets, TLC

VARIABLES
    \* ---- FileExplorer component state (useState hooks) and its environment
    folders,          \* useState<FolderNode[]>: the in-memory forest
    searchTerm,       \* useState("")
    searchResults,    \* useState<VideoFile[]>
    lastFolderPath,   \* useState<string>
    localStorage,     \* the two cache keys of window.localStorage
    now,              \* Date.now(), in ms
    alerted,          \* the alert() raised by the last step, "none" if none
    played,           \* the argument of the onVideoSelect call of the last step, if any
    lastEvent,        \* the last step: the handler that ran, its input, how it went
    \* ---- one call of a pure function of fileUtils / of the snapshot codec
    args,             \* the argument of the call
    result,           \* its return value
    pc,               \* "call" before the function ran, "return" after
    \* ---- App component state (useState hooks)
    currentVideo,     \* useState<VideoFile | null>: null, or the video in a 1-tuple
    playlist,         \* useState<PlaylistItem[]>
    currentIndex,     \* useState(-1): an index of playlist, from 0
    \* ---- VideoPlayer component: its object URLs
    objectURL,        \* useState<string | null>: null, or the URL in a 1-tuple
    cleanupURL,       \* the objectURL the cleanup of the last effect run closed over
    created,          \* the object URLs made so far are 1..created
    revoked,          \* the object URLs handed to URL.revokeObjectURL
    playerMounted     \* the VideoPlayer is mounted

appVars == <<currentVideo, playlist, currentIndex>>
playerVars == <<objectURL, cleanupURL, created, revoked, playerMounted>>
compVars == <<folders, searchTerm, searchResults, lastFolderPath, localStorage,
              now, alerted, played, lastEvent, appVars, playerVars>>
callVars == <<args, result, pc>>
vars == <<folders, searchTerm, searchResults, lastFolderPath, localStorage,
          now, alerted, played, lastEvent, args, result, pc,
          currentVideo, playlist, currentIndex,
          objectURL, cleanupURL, created, revoked, playerMounted>>

-----------------------------------------------------------------------------
(* Bounds of the model *)

MaxNameLen == 4     \* longest generated file name, in characters
MaxSortLen == 3     \* longest generated list handed to sortFilesByNumber
MaxBatch == 3       \* most files in a generated FileList handed to the builder

-----------------------------------------------------------------------------
(* Characters and strings *)

Digit == {"0", "1", "2", "3", "4", "5", "6", "7", "8", "9"}

LowerCaseLetters == <<"a", "b", "c", "d", "e", "f", "g", "h", "i", "j", "k", "l", "m",
                      "n", "o", "p", "q", "r", "s", "t", "u", "v", "w", "x", "y", "z">>
UpperCaseLetters == <<"A", "B", "C", "D", "E", "F", "G", "H", "I", "J", "K", "L", "M",
                      "N", "O", "P", "Q", "R", "S", "T", "U", "V", "W", "X", "Y", "Z">>

IndexIn(c, seq) == IF \E i \in 1..Len(seq) : seq[i] = c
                   THEN CHOOSE i \in 1..Len(seq) : seq[i] = c
                   ELSE 0

\* String.prototype.toLowerCase, one character
toLowerCaseChar(c) == IF IndexIn(c, UpperCaseLetters) > 0
                      THEN LowerCaseLetters[IndexIn(c, UpperCaseLetters)]
                      ELSE c

\* String.prototype.toLowerCase
toLowerCase(s) == [i \in 1..Len(s) |-> toLowerCaseChar(s[i])]

\* the value of one decimal digit
DigitValue(c) == CASE c = "0" -> 0 [] c = "1" -> 1 [] c = "2" -> 2 [] c = "3" -> 3
                   [] c = "4" -> 4 [] c = "5" -> 5 [] c = "6" -> 6 [] c = "7" -> 7
                   [] c = "8" -> 8 [] c = "9" -> 9

\* parseInt(digits, 10) of a non-empty run of decimal digits
RECURSIVE parseInt(_)
parseInt(ds) == IF Len(ds) = 0 THEN 0
                ELSE parseInt(SubSeq(ds, 1, Len(ds) - 1)) * 10 + DigitValue(ds[Len(ds)])

\* the longest run of digits of s that starts at position i (what \d+ takes there)
RECURSIVE DigitRunAt(_, _)
DigitRunAt(s, i) == IF i > Len(s) \/ s[i] \notin Digit THEN <<>>
                    ELSE <<s[i]>> \o DigitRunAt(s, i + 1)

-----------------------------------------------------------------------------
(* The natural sort: extractNumberFromFileName and sortFilesByNumber *)

\* what extractNumberFromFileName returns for a name no pattern matches
Infinity == -1

\* the first match of /DI(\d+)unit/ in s: the digits of its group, <<>> if none.
\* After DI the group takes the whole digit run: the unit is no digit.
LabelMatch(s, unit) ==
    LET starts == {i \in 1..Len(s) :
                     /\ s[i] = "DI"
                     /\ DigitRunAt(s, i + 1) # <<>>
                     /\ i + Len(DigitRunAt(s, i + 1)) + 1 <= Len(s)
                     /\ s[i + Len(DigitRunAt(s, i + 1)) + 1] = unit}
    IN IF starts = {} THEN <<>>
       ELSE DigitRunAt(s, (CHOOSE i \in starts : \A k \in starts : i <= k) + 1)

\* the match of /^(\d+)/
LeadingMatch(s) == DigitRunAt(s, 1)

\* the first match of /(\d+)/
AnyMatch(s) ==
    LET starts == {i \in 1..Len(s) : s[i] \in Digit}
    IN IF starts = {} THEN <<>>
       ELSE DigitRunAt(s, CHOOSE i \in starts : \A k \in starts : i <= k)

\* a plausible slip: the patterns tried in the wrong order, any digit run first
extractNumber_AnyDigitFirst(fileName) ==
    IF AnyMatch(fileName) # <<>> THEN parseInt(AnyMatch(fileName))
    ELSE Infinity

extractNumberFromFileName(fileName) ==
    LET patterns == << LabelMatch(fileName, "JIE"),
                       LabelMatch(fileName, "ZHANG"),
                       LabelMatch(fileName, "KE"),
                       LeadingMatch(fileName),
                       AnyMatch(fileName) >>
        hits == {k \in 1..Len(patterns) : patterns[k] # <<>>}
    IN IF hits = {} THEN Infinity
       ELSE parseInt(patterns[CHOOSE k \in hits : \A h \in hits : k <= h])

\* The collation weight of a character for String.prototype.localeCompare:
\* white space and punctuation, then digits, then letters (case ignored at
\* this level), then the Han characters.
CollationOrder == <<" ", ".", "/", "-", "_">>
                  \o <<"0", "1", "2", "3", "4", "5", "6", "7", "8", "9">>
                  \o LowerCaseLetters
                  \o <<"LU", "GEN", "MU", "ZHANG", "DI", "JIE", "KE">>

PrimaryWeight(c) == IndexIn(toLowerCaseChar(c), CollationOrder)

\* at equal letters a lower-case letter sorts before its upper-case form
CaseWeight(c) == IF IndexIn(c, UpperCaseLetters) > 0 THEN 1 ELSE 0

\* lexicographic comparison of two sequences of numbers: -1, 0 or 1
RECURSIVE CompareWeights(_, _)
CompareWeights(u, v) ==
    IF Len(u) = 0 /\ Len(v) = 0 THEN 0
    ELSE IF Len(u) = 0 THEN -1
    ELSE IF Len(v) = 0 THEN 1
    ELSE IF u[1] < v[1] THEN -1
    ELSE IF u[1] > v[1] THEN 1
    ELSE CompareWeights(Tail(u), Tail(v))

\* a.localeCompare(b)
localeCompare(a, b) ==
    LET primary == CompareWeights([i \in 1..Len(a) |-> PrimaryWeight(a[i])],
                                  [i \in 1..Len(b) |-> PrimaryWeight(b[i])])
    IN IF primary # 0 THEN primary
       ELSE CompareWeights([i \in 1..Len(a) |-> CaseWeight(a[i])],
                           [i \in 1..Len(b) |-> CaseWeight(b[i])])

\* a plausible slip: the branch that puts an unnumbered item after a numbered
\* one is missing, so the pair falls through to the comparison of names
compareByNumber_NoNumberedFirst(a, b) ==
    LET numA == extractNumberFromFileName(a.name)
        numB == extractNumberFromFileName(b.name)
    IN IF numA # Infinity /\ numB # Infinity THEN numA - numB
       ELSE IF numA # Infinity /\ numB = Infinity THEN -1
       ELSE localeCompare(a.name, b.name)

\* the comparator handed to Array.prototype.sort
compareByNumber(a, b) ==
    LET numA == extractNumberFromFileName(a.name)
        numB == extractNumberFromFileName(b.name)
    IN IF numA # Infinity /\ numB # Infinity THEN numA - numB
       ELSE IF numA # Infinity /\ numB = Infinity THEN -1
       ELSE IF numA = Infinity /\ numB # Infinity THEN 1
       ELSE localeCompare(a.name, b.name)

\* x put into the sorted list s behind every element that does not sort after it
RECURSIVE InsertSorted(_, _)
InsertSorted(x, s) ==
    IF Len(s) = 0 THEN <<x>>
    ELSE IF compareByNumber(s[1], x) > 0 THEN <<x>> \o s
    ELSE <<s[1]>> \o InsertSorted(x, Tail(s))

\* [...files].sort(comparator): Array.prototype.sort is a stable sort
RECURSIVE sortFilesByNumber(_)
sortFilesByNumber(fs) ==
    IF Len(fs) = 0 THEN <<>>
    ELSE InsertSorted(fs[Len(fs)], sortFilesByNumber(SubSeq(fs, 1, Len(fs) - 1)))

-----------------------------------------------------------------------------
(* The File objects of a selection and the video test *)

\* SUPPORTED_VIDEO_FORMATS, the MIME types taken for video
SUPPORTED_VIDEO_FORMATS == {"video/mp4", "video/webm", "video/ogg", "video/avi",
                            "video/mov", "video/wmv", "video/flv", "video/mkv"}

\* the position of the last c in s, 0 if there is none
LastIndexOf(s, c) == LET at == {i \in 1..Len(s) : s[i] = c}
                     IN IF at = {} THEN 0 ELSE CHOOSE i \in at : \A k \in at : k <= i

\* isVideoByExtension: without a dot lastIndexOf is -1 and substring(-1) is
\* the whole name
isVideoByExtension(fileName) ==
    LET videoExtensions == { <<".", "m", "p", "4">>, <<".", "w", "e", "b", "m">>,
                             <<".", "o", "g", "g">>, <<".", "a", "v", "i">>,
                             <<".", "m", "o", "v">>, <<".", "w", "m", "v">>,
                             <<".", "f", "l", "v">>, <<".", "m", "k", "v">>,
                             <<".", "m", "4", "v">>, <<".", "3", "g", "p">> }
        lower == toLowerCase(fileName)
        dot == LastIndexOf(fileName, ".")
        extension == IF dot = 0 THEN lower ELSE SubSeq(lower, dot, Len(lower))
    IN extension \in videoExtensions

isVideoFile(file) == file.type \in SUPPORTED_VIDEO_FORMATS \/ isVideoByExtension(file.name)

\* convertFilesToVideoFiles: the video files of a FileList
convertFilesToVideoFiles(fileList) ==
    SelectSeq([i \in 1..Len(fileList) |->
                  [file |-> fileList[i], name |-> fileList[i].name,
                   path |-> IF fileList[i].webkitRelativePath # <<>>
                            THEN fileList[i].webkitRelativePath ELSE fileList[i].name,
                   size |-> fileList[i].size]],
              LAMBDA v : isVideoFile(v.file))

-----------------------------------------------------------------------------
(* The tree builder: buildCompleteFolderTree *)

\* path.split("/")
RECURSIVE Split(_)
Split(s) == LET at == {i \in 1..Len(s) : s[i] = "/"}
            IN IF at = {} THEN <<s>>
               ELSE LET i == CHOOSE j \in at : \A k \in at : j <= k
                    IN <<SubSeq(s, 1, i - 1)>> \o Split(SubSeq(s, i + 1, Len(s)))

\* the name of the root node, three Han characters (U+6839 U+76EE U+5F55)
RootName == <<"GEN", "MU", "LU">>

\* a reference to a folder object is its key in folderMap; null is the empty tuple
Null == <<>>
Ref(path) == <<path>>

\* a plausible slip: the folder is named by its whole path
NewFolder_NamedByPath(name, path, isExpanded) ==
    [name |-> path, path |-> path, children |-> <<>>, videos |-> <<>>,
     allFiles |-> <<>>, isExpanded |-> isExpanded]

\* the literal of a new FolderNode; its children are references
NewFolder(name, path, isExpanded) ==
    [name |-> name, path |-> path, children |-> <<>>, videos |-> <<>>,
     allFiles |-> <<>>, isExpanded |-> isExpanded]

\* the state of one build: folderMap and rootFolders
EmptyBuild == [folderMap |-> <<>>, rootFolders |-> <<>>]

\* getRootFolder: the root node is made, registered under "" and put among the
\* roots the first time it is asked for
getRootFolder(st) ==
    IF <<>> \in DOMAIN st.folderMap THEN st
    ELSE [folderMap |-> st.folderMap @@ (<<>> :> NewFolder(RootName, <<>>, TRUE)),
          rootFolders |-> Append(st.rootFolders, <<>>)]

\* the item built for one File of the list
FileItem(file) ==
    [file |-> file, name |-> file.name,
     path |-> IF file.webkitRelativePath # <<>> THEN file.webkitRelativePath ELSE file.name,
     size |-> file.size, isVideo |-> isVideoFile(file)]

\* a plausible slip: a file is taken for a video by its MIME type alone when
\* it is put among the videos of its folder
PushFile_VideoByType(st, folderPath, fileItem) ==
    LET folder == st.folderMap[folderPath]
        video == [file |-> fileItem.file, name |-> fileItem.name,
                  path |-> fileItem.path, size |-> fileItem.size]
    IN [st EXCEPT !.folderMap[folderPath] =
           [folder EXCEPT !.allFiles = Append(folder.allFiles, fileItem),
                          !.videos = IF fileItem.file.type \in SUPPORTED_VIDEO_FORMATS
                                     THEN Append(folder.videos, video)
                                     ELSE folder.videos]]

\* folder.allFiles.push(fileItem), and folder.videos.push(...) for a video
PushFile(st, folderPath, fileItem) ==
    LET folder == st.folderMap[folderPath]
        video == [file |-> fileItem.file, name |-> fileItem.name,
                  path |-> fileItem.path, size |-> fileItem.size]
    IN [st EXCEPT !.folderMap[folderPath] =
           [folder EXCEPT !.allFiles = Append(folder.allFiles, fileItem),
                          !.videos = IF fileItem.isVideo
                                     THEN Append(folder.videos, video)
                                     ELSE folder.videos]]

\* a plausible slip: a new folder is always linked under the folder registered
\* for the parent prefix, never made a root
LinkFolder_UnderParentPath(st, currentParent, parentPath, newPath) ==
    IF parentPath \in DOMAIN st.folderMap
    THEN [st EXCEPT !.folderMap[parentPath].children = Append(@, newPath)]
    ELSE st

\* a plausible slip: a folder linked under its parent is put among the roots
\* as well
LinkFolder_AlsoRoot(st, currentParent, parentPath, newPath) ==
    IF currentParent # Null
    THEN [st EXCEPT !.folderMap[currentParent[1]].children = Append(@, newPath),
                    !.rootFolders = Append(@, newPath)]
    ELSE IF parentPath = <<>>
    THEN [st EXCEPT !.rootFolders = Append(@, newPath)]
    ELSE st

\* a plausible slip: a first-level folder made when the root node exists
\* already is linked under the root node
LinkFolder_UnderRootNode(st, currentParent, parentPath, newPath) ==
    IF currentParent # Null
    THEN [st EXCEPT !.folderMap[currentParent[1]].children = Append(@, newPath)]
    ELSE IF <<>> \in DOMAIN st.folderMap
    THEN [st EXCEPT !.folderMap[<<>>].children = Append(@, newPath)]
    ELSE [st EXCEPT !.rootFolders = Append(@, newPath)]

\* the new folder is linked: under currentParent, else among the roots when
\* the parent prefix is empty, else under the folder registered for the prefix
LinkFolder(st, currentParent, parentPath, newPath) ==
    IF currentParent # Null
    THEN [st EXCEPT !.folderMap[currentParent[1]].children = Append(@, newPath)]
    ELSE IF parentPath = <<>>
    THEN [st EXCEPT !.rootFolders = Append(@, newPath)]
    ELSE IF parentPath \in DOMAIN st.folderMap
    THEN [st EXCEPT !.folderMap[parentPath].children = Append(@, newPath)]
    ELSE st

\* a plausible slip: the running prefix is dropped, the folder's path is its name
JoinPath_NoPrefix(currentPath, folderName) == folderName

\* currentPath ? `${currentPath}/${folderName}` : folderName
JoinPath(currentPath, folderName) ==
    IF currentPath # <<>> THEN currentPath \o <<"/">> \o folderName ELSE folderName

\* pathParts.forEach(folderName => ...): the folders of one path are walked
\* from the top, the missing ones are made; yields the build state and
\* currentParent
RECURSIVE WalkFolders(_, _, _, _)
WalkFolders(st, pathParts, currentPath, currentParent) ==
    IF Len(pathParts) = 0 THEN [st |-> st, currentParent |-> currentParent]
    ELSE LET folderName == pathParts[1]
             parentPath == currentPath
             newPath == JoinPath(currentPath, folderName)
             st1 == IF newPath \in DOMAIN st.folderMap THEN st
                    ELSE LinkFolder(
                           [st EXCEPT !.folderMap =
                               @ @@ (newPath :> NewFolder(folderName, newPath, FALSE))],
                           currentParent, parentPath, newPath)
         IN WalkFolders(st1, Tail(pathParts), newPath, Ref(newPath))

\* a plausible slip: a file without a folder is skipped, as it would be were
\* the root node never made
AddFile_DropsRootFiles(st, fileItem) ==
    LET parts == Split(fileItem.path)
        pathParts == SubSeq(parts, 1, Len(parts) - 1)
    IN IF Len(pathParts) = 0
       THEN st
       ELSE LET w == WalkFolders(st, pathParts, <<>>, Null)
            IN PushFile(w.st, w.currentParent[1], fileItem)

\* the body of allFiles.forEach(fileItem => ...)
AddFile(st, fileItem) ==
    LET parts == Split(fileItem.path)
        pathParts == SubSeq(parts, 1, Len(parts) - 1)
    IN IF Len(pathParts) = 0
       THEN PushFile(getRootFolder(st), <<>>, fileItem)
       ELSE LET w == WalkFolders(st, pathParts, <<>>, Null)
            IN IF w.currentParent # Null
               THEN PushFile(w.st, w.currentParent[1], fileItem)
               ELSE w.st

RECURSIVE AddFiles(_, _)
AddFiles(st, items) ==
    IF Len(items) = 0 THEN st
    ELSE AddFiles(AddFile(st, items[1]), Tail(items))

\* a plausible slip: the child folders are left in the order they were made
RECURSIVE sortFolderContents_ChildrenUnsorted(_, _)
sortFolderContents_ChildrenUnsorted(folderMap, path) ==
    LET folder == folderMap[path]
    IN [name |-> folder.name,
        path |-> folder.path,
        children |-> [i \in 1..Len(folder.children) |->
                        sortFolderContents_ChildrenUnsorted(folderMap, folder.children[i])],
        videos |-> sortFilesByNumber(folder.videos),
        allFiles |-> sortFilesByNumber(folder.allFiles),
        isExpanded |-> folder.isExpanded]

\* a plausible slip: the videos of a folder are left in the order of the batch
RECURSIVE sortFolderContents_VideosUnsorted(_, _)
sortFolderContents_VideosUnsorted(folderMap, path) ==
    LET folder == folderMap[path]
    IN [name |-> folder.name,
        path |-> folder.path,
        children |-> sortFilesByNumber(
                        [i \in 1..Len(folder.children) |->
                            sortFolderContents_VideosUnsorted(folderMap, folder.children[i])]),
        videos |-> folder.videos,
        allFiles |-> sortFilesByNumber(folder.allFiles),
        isExpanded |-> folder.isExpanded]

\* sortFolderContents: allFiles, videos and children of a folder are sorted,
\* then the contents of every child; the references are resolved on the way
RECURSIVE sortFolderContents(_, _)
sortFolderContents(folderMap, path) ==
    LET folder == folderMap[path]
    IN [name |-> folder.name,
        path |-> folder.path,
        children |-> sortFilesByNumber(
                        [i \in 1..Len(folder.children) |->
                            sortFolderContents(folderMap, folder.children[i])]),
        videos |-> sortFilesByNumber(folder.videos),
        allFiles |-> sortFilesByNumber(folder.allFiles),
        isExpanded |-> folder.isExpanded]

\* folderMap and rootFolders when allFiles.forEach has ended, before the sort
BuiltFolders(fileList) ==
    AddFiles(EmptyBuild, [i \in 1..Len(fileList) |-> FileItem(fileList[i])])

buildCompleteFolderTree(fileList) ==
    LET st == BuiltFolders(fileList)
    IN sortFilesByNumber([i \in 1..Len(st.rootFolders) |->
                             sortFolderContents(st.folderMap, st.rootFolders[i])])

-----------------------------------------------------------------------------
(* The snapshot codec: simplifyFolderTree and restoreFolderTree *)

Has(rec, field) == field \in DOMAIN rec

\* a record with one more field, or the record itself when the value is undefined
WithOptional(rec, field, has, value) == IF has THEN rec @@ (field :> value) ELSE rec

\* a plausible slip: the videos are copied as they are, content handle and all
RECURSIVE simplifyFolderTree_VideosAsTheyAre(_)
simplifyFolderTree_VideosAsTheyAre(forest) ==
    [i \in 1..Len(forest) |->
        LET folder == forest[i]
        IN WithOptional(
             [name |-> folder.name,
              path |-> folder.path,
              children |-> simplifyFolderTree_VideosAsTheyAre(folder.children),
              videos |-> folder.videos,
              allFiles |-> IF Has(folder, "allFiles")
                           THEN [k \in 1..Len(folder.allFiles) |->
                                   [name |-> folder.allFiles[k].name,
                                    path |-> folder.allFiles[k].path,
                                    size |-> folder.allFiles[k].size,
                                    isVideo |-> folder.allFiles[k].isVideo]]
                           ELSE <<>>],
             "isExpanded", Has(folder, "isExpanded"),
             IF Has(folder, "isExpanded") THEN folder.isExpanded ELSE FALSE)]

RECURSIVE simplifyFolderTree(_)
simplifyFolderTree(forest) ==
    [i \in 1..Len(forest) |->
        LET folder == forest[i]
        IN WithOptional(
             [name |-> folder.name,
              path |-> folder.path,
              children |-> simplifyFolderTree(folder.children),
              videos |-> [k \in 1..Len(folder.videos) |->
                            [name |-> folder.videos[k].name,
                             path |-> folder.videos[k].path,
                             size |-> folder.videos[k].size]],
              allFiles |-> IF Has(folder, "allFiles")
                           THEN [k \in 1..Len(folder.allFiles) |->
                                   [name |-> folder.allFiles[k].name,
                                    path |-> folder.allFiles[k].path,
                                    size |-> folder.allFiles[k].size,
                                    isVideo |-> folder.allFiles[k].isVideo]]
                           ELSE <<>>],
             "isExpanded", Has(folder, "isExpanded"),
             IF Has(folder, "isExpanded") THEN folder.isExpanded ELSE FALSE)]

RECURSIVE restoreFolderTree(_)
restoreFolderTree(simplifiedTree) ==
    [i \in 1..Len(simplifiedTree) |->
        LET folder == simplifiedTree[i]
            filled == [children |-> restoreFolderTree(IF Has(folder, "children")
                                                      THEN folder.children ELSE <<>>),
                       videos |-> IF Has(folder, "videos") THEN folder.videos ELSE <<>>,
                       allFiles |-> IF Has(folder, "allFiles") THEN folder.allFiles ELSE <<>>,
                       isExpanded |-> IF Has(folder, "isExpanded")
                                      THEN folder.isExpanded ELSE FALSE]
            named == WithOptional(filled, "name", Has(folder, "name"),
                                  IF Has(folder, "name") THEN folder.name ELSE <<>>)
        IN WithOptional(named, "path", Has(folder, "path"),
                        IF Has(folder, "path") THEN folder.path ELSE <<>>)]

-----------------------------------------------------------------------------
(* The inputs of the pure functions *)

MP4 == <<".", "m", "p", "4">>
TXT == <<".", "t", "x", "t">>

\* a File of a directory selection: name is the last segment of the relative
\* path; a File picked without a directory has an empty webkitRelativePath
DirFile(relativePath, size, type) ==
    [name |-> Split(relativePath)[Len(Split(relativePath))],
     webkitRelativePath |-> relativePath, size |-> size, type |-> type]
BareFile(name, size, type) ==
    [name |-> name, webkitRelativePath |-> <<>>, size |-> size, type |-> type]

\* the files the generated batches are drawn from: files of the root, of a
\* folder A (two labelled names, a name with the key of one of them and a
\* text file with that key), of
\* two nested folders (one holds a video), and of two first-level folders whose
\* names have the same key
BuildFiles ==
    { BareFile(<<"B">> \o MP4, 7, "video/mp4"),
      BareFile(<<"n">> \o TXT, 2, "text/plain"),
      DirFile(<<"A", "/", "DI", "2", "JIE">> \o MP4, 3, "video/mp4"),
      DirFile(<<"A", "/", "DI", "1", "JIE">> \o MP4, 4, "video/mp4"),
      DirFile(<<"A", "/", "x", "1">> \o MP4, 5, ""),
      DirFile(<<"A", "/", "1">> \o TXT, 10, "text/plain"),
      DirFile(<<"A", "/", "s", "1", "/", "n">> \o TXT, 6, "text/plain"),
      DirFile(<<"A", "/", "b", "/", "a">> \o MP4, 9, ""),
      DirFile(<<"t", "1", "/", "b", ".", "M", "P", "4">>, 1, ""),
      DirFile(<<"s", "1", "/", "c">> \o TXT, 8, "text/plain") }

\* the FileLists of at most n files of a pool, no file twice
FileLists(pool, n) ==
    {b \in UNION {[1..k -> pool] : k \in 0..n} :
        \A i, j \in 1..Len(b) : i # j => b[i] # b[j]}

\* the characters of the generated file names
KeyAlphabet == {"DI", "JIE", "ZHANG", "KE", "1", "2", "a"}

Episode10 == <<"e", "p", "i", "s", "o", "d", "e", "1", "0">> \o MP4
Episode2 == <<"e", "p", "i", "s", "o", "d", "e", "2">> \o MP4
Intro == <<"i", "n", "t", "r", "o">> \o MP4

KeyNames == UNION {[1..n -> KeyAlphabet] : n \in 0..MaxNameLen}
            \cup {Episode10, Episode2, Intro}

\* the items of the generated lists: names with equal and with different keys,
\* names without a key, and a second item of a numbered and of an unnumbered name
SortNames == {<<"a", "1">>, <<"b", "1">>, <<"2">>, <<"a">>, <<"b">>, <<"A">>}
SortItems == {[name |-> n, size |-> 1] : n \in SortNames}
             \cup {[name |-> <<"a", "1">>, size |-> 2], [name |-> <<"a">>, size |-> 2]}
EpisodeList == <<[name |-> Episode10, size |-> 1], [name |-> Episode2, size |-> 1],
                 [name |-> Intro, size |-> 1]>>
SortLists == UNION {[1..n -> SortItems] : n \in 0..MaxSortLen} \cup {EpisodeList}

\* a forest with the optional properties of the FolderNode interface left out
RECURSIVE DropOptional(_, _, _)
DropOptional(forest, noExpanded, noAllFiles) ==
    [i \in 1..Len(forest) |->
        LET folder == forest[i]
            base == [name |-> folder.name, path |-> folder.path,
                     children |-> DropOptional(folder.children, noExpanded, noAllFiles),
                     videos |-> folder.videos]
            withFiles == WithOptional(base, "allFiles", ~noAllFiles, folder.allFiles)
        IN WithOptional(withFiles, "isExpanded", ~noExpanded, folder.isExpanded)]

\* the forests handed to the codec: what the builder returns, with and without
\* the optional properties
CodecForests ==
    {DropOptional(buildCompleteFolderTree(b), e, a) :
        b \in FileLists(BuildFiles, MaxBatch), e \in BOOLEAN, a \in BOOLEAN}

-----------------------------------------------------------------------------
(* One call of a pure function: the argument is drawn, the function runs *)

\* App and VideoPlayer as mounted: no video, no playlist, no object URL
IdleApp ==
    /\ currentVideo = <<>>
    /\ playlist = <<>>
    /\ currentIndex = -1
    /\ objectURL = <<>>
    /\ cleanupURL = <<>>
    /\ created = 0
    /\ revoked = {}
    /\ playerMounted = TRUE

IdleComponent ==
    /\ IdleApp
    /\ folders = <<>>
    /\ searchTerm = <<>>
    /\ searchResults = <<>>
    /\ lastFolderPath = <<>>
    /\ localStorage = <<>>
    /\ now = 0
    /\ alerted = "none"
    /\ played = <<>>
    /\ lastEvent = [op |-> "none"]

KeyInit ==
    /\ args \in {[fn |-> "extractNumberFromFileName", fileName |-> n] : n \in KeyNames}
    /\ result = <<>>
    /\ pc = "call"
    /\ IdleComponent

ExtractNumber ==
    /\ pc = "call"
    /\ args.fn = "extractNumberFromFileName"
    /\ result' = extractNumberFromFileName(args.fileName)
    /\ pc' = "return"
    /\ UNCHANGED <<args, compVars>>

SpecKey == KeyInit /\ [][ExtractNumber]_vars

SortInit ==
    /\ args \in {[fn |-> "sortFilesByNumber", files |-> l] : l \in SortLists}
    /\ result = <<>>
    /\ pc = "call"
    /\ IdleComponent

SortFiles ==
    /\ pc = "call"
    /\ args.fn = "sortFilesByNumber"
    /\ result' = sortFilesByNumber(args.files)
    /\ pc' = "return"
    /\ UNCHANGED <<args, compVars>>

SpecSort == SortInit /\ [][SortFiles]_vars

BuildInit ==
    /\ args \in {[fn |-> "buildCompleteFolderTree", files |-> b] :
                    b \in FileLists(BuildFiles, MaxBatch)}
    /\ result = <<>>
    /\ pc = "call"
    /\ IdleComponent

BuildTree ==
    /\ pc = "call"
    /\ args.fn = "buildCompleteFolderTree"
    /\ result' = buildCompleteFolderTree(args.files)
    /\ pc' = "return"
    /\ UNCHANGED <<args, compVars>>

SpecBuild == BuildInit /\ [][BuildTree]_vars

\* a File with any name and relative path, as the exported function may be
\* handed one
AnyFile(name, relativePath, size, type) ==
    [name |-> name, webkitRelativePath |-> relativePath, size |-> size, type |-> type]

\* files whose paths have no segments or empty ones (an empty path, a leading,
\* a doubled and a trailing "/"), and two files with paths as a directory
\* selection gives them
OddFiles ==
    { AnyFile(<<>>, <<>>, 1, ""),
      AnyFile(<<"x">> \o MP4, <<"/", "x">> \o MP4, 2, "video/mp4"),
      AnyFile(<<"y">> \o MP4, <<"A", "/", "/", "y">> \o MP4, 3, "video/mp4"),
      AnyFile(<<>>, <<"A", "/">>, 4, ""),
      BareFile(<<"B">> \o MP4, 7, "video/mp4"),
      DirFile(<<"A", "/", "x", "1">> \o MP4, 5, "") }

OddBuildInit ==
    /\ args \in {[fn |-> "buildCompleteFolderTree", files |-> b] :
                    b \in FileLists(OddFiles, MaxBatch)}
    /\ result = <<>>
    /\ pc = "call"
    /\ IdleComponent

SpecOddBuild == OddBuildInit /\ [][BuildTree]_vars

CodecInit ==
    /\ args \in {[fn |-> "simplifyFolderTree", folders |-> t] : t \in CodecForests}
    /\ result = <<>>
    /\ pc = "call"
    /\ IdleComponent

\* serialize, restore, serialize again
Simplify ==
    /\ pc = "call"
    /\ args.fn = "simplifyFolderTree"
    /\ result' = [snapshot |-> simplifyFolderTree(args.folders)]
    /\ pc' = "simplified"
    /\ UNCHANGED <<args, compVars>>

Restore ==
    /\ pc = "simplified"
    /\ result' = result @@ ("restored" :> restoreFolderTree(result.snapshot))
    /\ pc' = "restored"
    /\ UNCHANGED <<args, compVars>>

SimplifyAgain ==
    /\ pc = "restored"
    /\ result' = result @@ ("again" :> simplifyFolderTree(result.restored))
    /\ pc' = "return"
    /\ UNCHANGED <<args, compVars>>

CodecNext == Simplify \/ Restore \/ SimplifyAgain

SpecCodec == CodecInit /\ [][CodecNext]_vars

\* every folder node of a forest, at every depth
RECURSIVE NodesOf(_)
NodesOf(forest) ==
    UNION {{forest[i]} \cup NodesOf(forest[i].children) : i \in 1..Len(forest)}

-----------------------------------------------------------------------------
(* The search: searchVideos and the pipeline of handleSearch *)

WhiteSpace == {" "}

\* String.prototype.trim
RECURSIVE trim(_)
trim(s) == IF Len(s) = 0 THEN s
           ELSE IF s[1] \in WhiteSpace THEN trim(Tail(s))
           ELSE IF s[Len(s)] \in WhiteSpace THEN trim(SubSeq(s, 1, Len(s) - 1))
           ELSE s

\* String.prototype.includes
Includes(s, t) == \E i \in 0..(Len(s) - Len(t)) : SubSeq(s, i + 1, i + Len(t)) = t

RECURSIVE ConcatAll(_)
ConcatAll(seqs) == IF Len(seqs) = 0 THEN <<>> ELSE seqs[1] \o ConcatAll(Tail(seqs))

\* searchInFolder: the matching videos of the folder, then those of its
\* children, in order
RECURSIVE searchInFolder(_, _)
searchInFolder(folder, lowerSearchTerm) ==
    SelectSeq(folder.videos, LAMBDA video : Includes(toLowerCase(video.name), lowerSearchTerm))
    \o ConcatAll([i \in 1..Len(folder.children) |->
                    searchInFolder(folder.children[i], lowerSearchTerm)])

\* a plausible slip: the term is not turned to lower case
searchVideos_TermAsTyped(forest, term) ==
    ConcatAll([i \in 1..Len(forest) |-> searchInFolder(forest[i], term)])

searchVideos(forest, term) ==
    ConcatAll([i \in 1..Len(forest) |-> searchInFolder(forest[i], toLowerCase(term))])

\* a plausible slip: the test for a blank term is missing
search_NoBlankTest(forest, value) == sortFilesByNumber(searchVideos(forest, value))

\* a plausible slip: the matches are returned as they were collected
search_Unsorted(forest, value) ==
    IF trim(value) = <<>> THEN <<>>
    ELSE searchVideos(forest, value)

\* what handleSearch puts into searchResults for the term typed
search(forest, value) ==
    IF trim(value) = <<>> THEN <<>>
    ELSE sortFilesByNumber(searchVideos(forest, value))

-----------------------------------------------------------------------------
(* The FileExplorer component *)

FOLDER_CACHE_KEY == "video-player-last-folder"
FOLDER_CONTENT_CACHE_KEY == "video-player-folder-content"

\* 7 * 24 * 60 * 60 * 1000, the age in ms beyond which a snapshot is expired
RetentionMs == 604800000

\* the clock runs from 0 to RetentionMs + MaxSlackMs
MaxSlackMs == 1

\* most files of a FileList chosen in the component
MaxSelect == 1

\* the folder name stored for a file without a relative path (five Han characters)
UnknownFolder == <<"WEI", "ZHI", "WEN", "JIAN", "JIA">>

\* JSON.stringify and JSON.parse of the records kept in storage: a property
\* that is undefined is left out of the text, which here is a missing field
JSONstringify(value) == [json |-> value]
JSONparse(text) == text.json

\* JSON.parse throws a SyntaxError on a text that is no JSON
CanParse(text) == Has(text, "json")

\* localStorage.getItem: null for a key that is not set
getItem(storage, key) == IF key \in DOMAIN storage THEN storage[key] ELSE Null

\* localStorage.setItem
setItem(storage, key, text) == [k \in DOMAIN storage \cup {key} |->
                                  IF k = key THEN text ELSE storage[k]]

\* saveFolderToCache for a non-empty FileList: the two records are written one
\* after the other, then lastFolderPath is set.  fault names the setItem call
\* that throws (the quota is exceeded): "none", "meta" or "content".  Yields
\* the storage, lastFolderPath and whether the exception left the function.
saveFolderToCache(storage, fileList, folderTree, clock, oldLastFolderPath, fault) ==
    LET firstFile == fileList[1]
        folderPath == IF firstFile.webkitRelativePath # <<>>
                      THEN Split(firstFile.webkitRelativePath)[1]
                      ELSE UnknownFolder
        meta == JSONstringify([folderName |-> folderPath, timestamp |-> clock,
                               fileCount |-> Len(fileList)])
        content == JSONstringify([folderTree |-> simplifyFolderTree(folderTree),
                                  timestamp |-> clock])
        afterMeta == setItem(storage, FOLDER_CACHE_KEY, meta)
    IN IF fault = "meta"
       THEN [storage |-> storage, lastFolderPath |-> oldLastFolderPath, threw |-> TRUE]
       ELSE IF fault = "content"
       THEN [storage |-> afterMeta, lastFolderPath |-> oldLastFolderPath, threw |-> TRUE]
       ELSE [storage |-> setItem(afterMeta, FOLDER_CONTENT_CACHE_KEY, content),
             lastFolderPath |-> folderPath, threw |-> FALSE]

\* loadFolderFromCache: yields lastFolderPath, the forest, whether the forest
\* was restored and whether an exception was caught.  All of it runs in one
\* try block, a throw of JSON.parse ends it with what was set before.  A
\* timestamp that is undefined makes the age NaN, and NaN > n is false.
loadFolderFromCache(storage, clock, oldLastFolderPath, oldFolders) ==
    LET cached == getItem(storage, FOLDER_CACHE_KEY)
        contentCached == getItem(storage, FOLDER_CONTENT_CACHE_KEY)
        nothing == [lastFolderPath |-> oldLastFolderPath, folders |-> oldFolders,
                    restored |-> FALSE, caught |-> FALSE]
    IN IF cached = Null THEN nothing
       ELSE IF ~CanParse(cached) THEN [nothing EXCEPT !.caught = TRUE]
       ELSE LET named == [nothing EXCEPT !.lastFolderPath = JSONparse(cached).folderName]
            IN IF contentCached = Null THEN named
               ELSE IF ~CanParse(contentCached) THEN [named EXCEPT !.caught = TRUE]
               ELSE LET content == JSONparse(contentCached)
                        isExpired == /\ Has(content, "timestamp")
                                     /\ clock - content.timestamp > RetentionMs
                    IN IF ~isExpired /\ Has(content, "folderTree")
                       THEN [named EXCEPT !.folders = restoreFolderTree(content.folderTree),
                                          !.restored = TRUE]
                       ELSE named

\* the files a folder selection in the component is drawn from: a video whose
\* name holds a blank, a file that is no video, a file without a relative path
CompFiles ==
    { DirFile(<<"A", "/", "a", " ", "1">> \o MP4, 3, "video/mp4"),
      DirFile(<<"A", "/", "n">> \o TXT, 2, "text/plain"),
      BareFile(<<"B">> \o MP4, 7, "") }

\* the terms typed into the search box
SearchTerms == {<<>>, <<" ">>, <<"A">>}

\* the file nodes of the tree (convertToTreeData): the allFiles entries of
\* every folder
FileNodes(forest) ==
    UNION {{folder.allFiles[k] : k \in 1..Len(folder.allFiles)} : folder \in NodesOf(forest)}

\* the state after construction: the initial values of the hooks, before the
\* mount effect has run
Constructed ==
    /\ IdleApp
    /\ folders = <<>>
    /\ searchTerm = <<>>
    /\ searchResults = <<>>
    /\ lastFolderPath = <<>>
    /\ alerted = "none"
    /\ played = Null
    /\ lastEvent = [op |-> "construct"]

Init ==
    /\ Constructed
    /\ localStorage = <<>>
    /\ now = 0
    /\ args = [fn |-> "none"]
    /\ result = <<>>
    /\ pc = "idle"

Mounted == lastEvent.op # "construct"

\* useEffect(() => { loadFolderFromCache(); }, [])
Mount ==
    /\ ~Mounted
    /\ LET r == loadFolderFromCache(localStorage, now, lastFolderPath, folders)
       IN /\ folders' = r.folders
          /\ lastFolderPath' = r.lastFolderPath
          /\ lastEvent' = [op |-> "mount", restored |-> r.restored, caught |-> r.caught]
    /\ alerted' = "none"
    /\ played' = Null
    /\ UNCHANGED <<searchTerm, searchResults, localStorage, now, callVars, appVars, playerVars>>

\* a plausible slip: a new forest is set and the search is left as it was
HandleFolderSelect_KeepsSearch(fileList, fault) ==
    /\ Mounted
    /\ played' = Null
    /\ IF Len(fileList) = 0
       THEN /\ fault = "none"
            /\ lastEvent' = [op |-> "folderSelect", files |-> fileList, fault |-> fault]
            /\ alerted' = "none"
            /\ UNCHANGED <<folders, searchTerm, searchResults, lastFolderPath, localStorage>>
       ELSE LET folderTree == buildCompleteFolderTree(fileList)
                saved == saveFolderToCache(localStorage, fileList, folderTree, now,
                                           lastFolderPath, fault)
            IN /\ lastEvent' = [op |-> "folderSelect", files |-> fileList, fault |-> fault]
               /\ localStorage' = saved.storage
               /\ lastFolderPath' = saved.lastFolderPath
               /\ IF saved.threw
                  THEN /\ alerted' = "error"
                       /\ UNCHANGED <<folders, searchTerm, searchResults>>
                  ELSE /\ folders' = folderTree
                       /\ UNCHANGED <<searchTerm, searchResults>>
                       /\ alerted' = IF Len(convertFilesToVideoFiles(fileList)) = 0
                                     THEN "noVideos" ELSE "none"
    /\ UNCHANGED <<now, callVars, appVars, playerVars>>

\* handleFolderSelect: the change event of the file input
HandleFolderSelect(fileList, fault) ==
    /\ Mounted
    /\ played' = Null
    /\ IF Len(fileList) = 0
       THEN /\ fault = "none"
            /\ lastEvent' = [op |-> "folderSelect", files |-> fileList, fault |-> fault]
            /\ alerted' = "none"
            /\ UNCHANGED <<folders, searchTerm, searchResults, lastFolderPath, localStorage>>
       ELSE LET folderTree == buildCompleteFolderTree(fileList)
                saved == saveFolderToCache(localStorage, fileList, folderTree, now,
                                           lastFolderPath, fault)
            IN /\ lastEvent' = [op |-> "folderSelect", files |-> fileList, fault |-> fault]
               /\ localStorage' = saved.storage
               /\ lastFolderPath' = saved.lastFolderPath
               /\ IF saved.threw
                  THEN /\ alerted' = "error"
                       /\ UNCHANGED <<folders, searchTerm, searchResults>>
                  ELSE /\ folders' = folderTree
                       /\ searchTerm' = <<>>
                       /\ searchResults' = <<>>
                       /\ alerted' = IF Len(convertFilesToVideoFiles(fileList)) = 0
                                     THEN "noVideos" ELSE "none"
    /\ UNCHANGED <<now, callVars, appVars, playerVars>>

\* handleSearch: the search box is there once a forest is loaded
HandleSearch(value) ==
    /\ Mounted
    /\ Len(folders) > 0
    /\ searchTerm' = value
    /\ searchResults' = search(folders, value)
    /\ lastEvent' = [op |-> "search"]
    /\ alerted' = "none"
    /\ played' = Null
    /\ UNCHANGED <<folders, lastFolderPath, localStorage, now, callVars, appVars, playerVars>>

\* handleTreeSelect on a file node; the tree is shown while the term is empty
HandleTreeSelect(fileData) ==
    /\ Mounted
    /\ Len(folders) > 0
    /\ searchTerm = <<>>
    /\ fileData \in FileNodes(folders)
    /\ lastEvent' = [op |-> "treeSelect", entry |-> fileData]
    /\ IF ~Has(fileData, "file")
       THEN alerted' = "reselect" /\ played' = Null
       ELSE IF fileData.isVideo
       THEN /\ alerted' = "none"
            /\ played' = <<[file |-> fileData.file, name |-> fileData.name,
                            path |-> fileData.path, size |-> fileData.size]>>
       ELSE alerted' = "notVideo" /\ played' = Null
    /\ UNCHANGED <<folders, searchTerm, searchResults, lastFolderPath, localStorage,
                   now, callVars, appVars, playerVars>>

\* the onClick of a card of renderSearchResults; the list is shown while the
\* term is not empty
ClickSearchResult(index) ==
    /\ Mounted
    /\ Len(folders) > 0
    /\ searchTerm # <<>>
    /\ index \in 1..Len(searchResults)
    /\ lastEvent' = [op |-> "resultClick", entry |-> searchResults[index]]
    /\ alerted' = "none"
    /\ played' = <<searchResults[index]>>
    /\ UNCHANGED <<folders, searchTerm, searchResults, lastFolderPath, localStorage,
                   now, callVars, appVars, playerVars>>

\* time passes: the retention window, or the window and a little more
Tick(ms) ==
    /\ now + ms <= RetentionMs + MaxSlackMs
    /\ now' = now + ms
    /\ lastEvent' = [op |-> "tick"]
    /\ alerted' = "none"
    /\ played' = Null
    /\ UNCHANGED <<folders, searchTerm, searchResults, lastFolderPath, localStorage,
                   callVars, appVars, playerVars>>

\* the page is loaded again: the component is constructed anew, the storage stays
Reload ==
    /\ Mounted
    /\ folders' = <<>>
    /\ searchTerm' = <<>>
    /\ searchResults' = <<>>
    /\ lastFolderPath' = <<>>
    /\ alerted' = "none"
    /\ played' = Null
    /\ lastEvent' = [op |-> "construct"]
    /\ UNCHANGED <<localStorage, now, callVars, appVars, playerVars>>

Next ==
    \/ Mount
    \/ \E fileList \in FileLists(CompFiles, MaxSelect), fault \in {"none", "meta", "content"} :
          HandleFolderSelect(fileList, fault)
    \/ \E value \in SearchTerms : HandleSearch(value)
    \/ \E fileData \in FileNodes(folders) : HandleTreeSelect(fileData)
    \/ \E index \in 1..Len(searchResults) : ClickSearchResult(index)
    \/ \E ms \in {RetentionMs, RetentionMs + MaxSlackMs} : Tick(ms)
    \/ Reload

Spec == Init /\ [][Next]_vars

-----------------------------------------------------------------------------
(* The mount of the component over what the storage may hold *)

\* the two items as a selection of the files leaves them, written at time 0
SavedStorage(fileList) ==
    saveFolderToCache(<<>>, fileList, buildCompleteFolderTree(fileList), 0, <<>>,
                      "none").storage

\* a text that is no JSON
Garbled == [garbled |-> TRUE]

\* a storage with one item removed
removeItem(storage, key) == [k \in DOMAIN storage \ {key} |-> storage[k]]

\* the content item of a storage with another record in it
WithContent(storage, record) == setItem(storage, FOLDER_CONTENT_CACHE_KEY, JSONstringify(record))

\* what may have become of the items of an earlier selection when the page is
\* loaded: an item removed or cut short, or the content item written by
\* another program with a record of another shape
Damages == {"none", "noContent", "noMeta", "metaGarbled", "contentGarbled",
            "noFolderTree", "noTimestamp", "folderWithoutName"}

Damaged(storage, damage) ==
    CASE damage = "none" -> storage
      [] damage = "noContent" -> removeItem(storage, FOLDER_CONTENT_CACHE_KEY)
      [] damage = "noMeta" -> removeItem(storage, FOLDER_CACHE_KEY)
      [] damage = "metaGarbled" -> setItem(storage, FOLDER_CACHE_KEY, Garbled)
      [] damage = "contentGarbled" -> setItem(storage, FOLDER_CONTENT_CACHE_KEY, Garbled)
      [] damage = "noFolderTree" -> WithContent(storage, [timestamp |-> 0])
      [] damage = "noTimestamp" ->
            WithContent(storage, [folderTree |->
                           JSONparse(storage[FOLDER_CONTENT_CACHE_KEY]).folderTree])
      [] damage = "folderWithoutName" ->
            WithContent(storage, [folderTree |-> <<[children |-> <<>>]>>, timestamp |-> 0])

\* what the storage may hold when the page is loaded
RestoreStorages ==
    {<<>>} \cup {Damaged(SavedStorage(b), damage) :
                    b \in FileLists(CompFiles, MaxSelect) \ {<<>>}, damage \in Damages}

RestoreInit ==
    /\ Constructed
    /\ localStorage \in RestoreStorages
    /\ now \in {0, RetentionMs, RetentionMs + MaxSlackMs}
    /\ args = [fn |-> "none"]
    /\ result = <<>>
    /\ pc = "idle"

SpecRestore == RestoreInit /\ [][Mount]_vars

-----------------------------------------------------------------------------
(* One call of the search *)

\* the forests searched: what the builder returns, and the same restored from
\* their snapshots
SearchForests ==
    LET built == {buildCompleteFolderTree(b) :
                     b \in FileLists(BuildFiles \cup CompFiles, MaxBatch)}
    IN built \cup {restoreFolderTree(simplifyFolderTree(f)) : f \in built}

\* the terms searched for: blank ones, and ones that match names in part, in
\* another case, or not at all
SearchValues == {<<>>, <<" ">>, <<" ", " ">>, <<"a">>, <<"B">>, <<"m", "P">>, <<"M", "p">>,
                 <<"1">>, <<"n">>, <<" ", "1">>}

SearchInit ==
    /\ args \in {[fn |-> "search", folders |-> f, value |-> v] :
                    f \in SearchForests, v \in SearchValues}
    /\ result = <<>>
    /\ pc = "call"
    /\ IdleComponent

Search ==
    /\ pc = "call"
    /\ args.fn = "search"
    /\ result' = search(args.folders, args.value)
    /\ pc' = "return"
    /\ UNCHANGED <<args, compVars>>

SpecSearch == SearchInit /\ [][Search]_vars

-----------------------------------------------------------------------------
(* The objects the functions of the forest work on, and what they write *)

\* An object memory is a sequence of cells, the address of an object is its
\* index.  A folder object holds the addresses of its arrays, an array the
\* addresses of its items, an entry (a video, a file item) its own values.
\* A function on objects yields the memory it leaves and the address it returns.
ArrayFields == {"children", "videos", "allFiles"}

\* a new array literal, or the array a map or a spread makes
NewArray(heap, items) == [heap |-> Append(heap, [items |-> items]), addr |-> Len(heap) + 1]

\* F of a value that is worked out once, as a statement after an assignment
\* to a const works with the value assigned
Then(value, F(_)) == CHOOSE y \in {F(x) : x \in {value}} : TRUE

\* the addresses after the last address of a memory
NextAddrs(heap, n) == [k \in 1..n |-> Len(heap) + k]

\* the objects of a list of entries and their array, as the builder or
\* JSON.parse leaves them
StoreEntries(heap, entries) ==
    NewArray(heap \o entries, NextAddrs(heap, Len(entries)))

\* the objects of a forest and the array of its roots
RECURSIVE StoreForest(_, _, _)
RECURSIVE StoreFolder(_, _)
StoreFolder(heap, folder) ==
    Then(IF Has(folder, "children") THEN StoreForest(heap, folder.children, <<>>)
         ELSE [heap |-> heap, addr |-> 0],
      LAMBDA c :
        Then(IF Has(folder, "videos") THEN StoreEntries(c.heap, folder.videos)
             ELSE [heap |-> c.heap, addr |-> 0],
          LAMBDA v :
            Then(IF Has(folder, "allFiles") THEN StoreEntries(v.heap, folder.allFiles)
                 ELSE [heap |-> v.heap, addr |-> 0],
              LAMBDA a :
                [heap |-> Append(a.heap,
                            WithOptional(
                              WithOptional(
                                WithOptional(
                                  [f \in (DOMAIN folder) \ ArrayFields |-> folder[f]],
                                  "children", Has(folder, "children"), c.addr),
                                "videos", Has(folder, "videos"), v.addr),
                              "allFiles", Has(folder, "allFiles"), a.addr)),
                 addr |-> Len(a.heap) + 1])))

StoreForest(heap, forest, addrs) ==
    IF Len(forest) = 0 THEN NewArray(heap, addrs)
    ELSE Then(StoreFolder(heap, forest[1]),
              LAMBDA r : StoreForest(r.heap, Tail(forest), Append(addrs, r.addr)))

\* the entries of the array at an address, and the forest of the array of
\* folders at an address, read out of a memory
LoadEntries(heap, addr) == [k \in 1..Len(heap[addr].items) |-> heap[heap[addr].items[k]]]

RECURSIVE LoadForest(_, _)
LoadForest(heap, addr) ==
    [i \in 1..Len(heap[addr].items) |->
        LET cell == heap[heap[addr].items[i]]
            own == [f \in (DOMAIN cell) \ ArrayFields |-> cell[f]]
        IN WithOptional(
             WithOptional(
               WithOptional(own, "children", Has(cell, "children"),
                            IF Has(cell, "children") THEN LoadForest(heap, cell.children)
                            ELSE <<>>),
               "videos", Has(cell, "videos"),
               IF Has(cell, "videos") THEN LoadEntries(heap, cell.videos) ELSE <<>>),
             "allFiles", Has(cell, "allFiles"),
             IF Has(cell, "allFiles") THEN LoadEntries(heap, cell.allFiles) ELSE <<>>)]

\* searchInFolder on objects: results.push(video) of every matching video of
\* the folder, then of its children; yields the addresses pushed
RECURSIVE searchInFolderObjects(_, _, _)
searchInFolderObjects(heap, folder, lowerSearchTerm) ==
    SelectSeq(heap[heap[folder].videos].items,
              LAMBDA video : Includes(toLowerCase(heap[video].name), lowerSearchTerm))
    \o ConcatAll([i \in 1..Len(heap[heap[folder].children].items) |->
                    searchInFolderObjects(heap, heap[heap[folder].children].items[i],
                                          lowerSearchTerm)])

\* searchVideos on objects: results is a new array, the videos pushed to it
\* are the objects of the forest
searchVideosObjects(heap, forest, term) ==
    NewArray(heap, ConcatAll([i \in 1..Len(heap[forest].items) |->
                                searchInFolderObjects(heap, heap[forest].items[i],
                                                      toLowerCase(term))]))

\* [...files].sort(...) on objects: the copy is sorted, files is left alone
sortFilesByNumberObjects(heap, files) ==
    LET named == [k \in 1..Len(heap[files].items) |->
                    [name |-> heap[heap[files].items[k]].name, addr |-> heap[files].items[k]]]
        sorted == sortFilesByNumber(named)
    IN NewArray(heap, [k \in 1..Len(sorted) |-> sorted[k].addr])

\* the search of handleSearch on objects
searchObjects(heap, forest, value) ==
    IF trim(value) = <<>> THEN NewArray(heap, <<>>)
    ELSE Then(searchVideosObjects(heap, forest, value),
              LAMBDA found : sortFilesByNumberObjects(found.heap, found.addr))

\* the properties of an object that a literal copies, those that are undefined
\* left out
Pick(cell, fields) == [f \in (DOMAIN cell) \cap fields |-> cell[f]]

\* a plausible slip: the properties that are not kept are deleted from the
\* entries themselves
MapEntries_InPlace(heap, items, fields) ==
    NewArray([a \in 1..Len(heap) |->
                IF \E k \in 1..Len(items) : items[k] = a THEN Pick(heap[a], fields)
                ELSE heap[a]],
             items)

\* entries.map(entry => ({...})): a new object for every entry, and the new array
MapEntries(heap, items, fields) ==
    NewArray(heap \o [k \in 1..Len(items) |-> Pick(heap[items[k]], fields)],
             NextAddrs(heap, Len(items)))

\* simplifyFolderTree on objects
RECURSIVE simplifyFolders(_, _, _)
RECURSIVE simplifyFolder(_, _)
simplifyFolder(heap, folder) ==
    Then(simplifyFolders(heap, heap[folder.children].items, <<>>),
      LAMBDA c :
        Then(MapEntries(c.heap, heap[folder.videos].items, {"name", "path", "size"}),
          LAMBDA v :
            Then(IF Has(folder, "allFiles")
                 THEN MapEntries(v.heap, heap[folder.allFiles].items,
                                 {"name", "path", "size", "isVideo"})
                 ELSE NewArray(v.heap, <<>>),
              LAMBDA a :
                [heap |-> Append(a.heap,
                            Pick(folder, {"name", "path", "isExpanded"})
                               @@ [children |-> c.addr, videos |-> v.addr,
                                   allFiles |-> a.addr]),
                 addr |-> Len(a.heap) + 1])))

simplifyFolders(heap, items, done) ==
    IF Len(items) = 0 THEN NewArray(heap, done)
    ELSE Then(simplifyFolder(heap, heap[items[1]]),
              LAMBDA r : simplifyFolders(r.heap, Tail(items), Append(done, r.addr)))

simplifyFolderTreeObjects(heap, forest) == simplifyFolders(heap, heap[forest].items, <<>>)

\* restoreFolderTree on objects: a new object for every folder; the arrays of
\* videos and of files are those of the snapshot, an array that is not there
\* is a new empty one
RECURSIVE restoreFolders(_, _, _)
RECURSIVE restoreFolder(_, _)
restoreFolder(heap, folder) ==
    Then(IF Has(folder, "children") THEN [heap |-> heap, addr |-> folder.children]
         ELSE NewArray(heap, <<>>),
      LAMBDA e :
        Then(restoreFolders(e.heap, e.heap[e.addr].items, <<>>),
          LAMBDA c :
            Then(IF Has(folder, "videos") THEN [heap |-> c.heap, addr |-> folder.videos]
                 ELSE NewArray(c.heap, <<>>),
              LAMBDA v :
                Then(IF Has(folder, "allFiles")
                     THEN [heap |-> v.heap, addr |-> folder.allFiles]
                     ELSE NewArray(v.heap, <<>>),
                  LAMBDA a :
                    [heap |-> Append(a.heap,
                                Pick(folder, {"name", "path"})
                                   @@ [children |-> c.addr, videos |-> v.addr,
                                       allFiles |-> a.addr,
                                       isExpanded |-> IF Has(folder, "isExpanded")
                                                      THEN folder.isExpanded ELSE FALSE]),
                     addr |-> Len(a.heap) + 1]))))

restoreFolders(heap, items, done) ==
    IF Len(items) = 0 THEN NewArray(heap, done)
    ELSE Then(restoreFolder(heap, heap[items[1]]),
              LAMBDA r : restoreFolders(r.heap, Tail(items), Append(done, r.addr)))

restoreFolderTreeObjects(heap, simplifiedTree) ==
    restoreFolders(heap, heap[simplifiedTree].items, <<>>)

\* the files of the forests kept in memory: those of the component and a
\* video two folders deep
ObjectFiles == CompFiles \cup {DirFile(<<"A", "/", "b", "/", "a">> \o MP4, 9, "")}

\* the snapshots parsed: what simplifyFolderTree gave, the same without the
\* optional properties, and a folder with no array at all
SnapshotKinds == {"simplified", "noOptional", "noArrays"}
Snapshot(forest, kind) ==
    CASE kind = "simplified" -> simplifyFolderTree(forest)
      [] kind = "noOptional" -> DropOptional(simplifyFolderTree(forest), TRUE, TRUE)
      [] kind = "noArrays" -> <<[name |-> <<"A">>, path |-> <<"A">>]>>

\* a memory with the forest of a selection, and one with a parsed snapshot
\* beside that forest
WithForest(fileList) ==
    Then(buildCompleteFolderTree(fileList), LAMBDA forest : StoreForest(<<>>, forest, <<>>))
WithSnapshot(live, fileList, kind) ==
    Then(Snapshot(buildCompleteFolderTree(fileList), kind),
         LAMBDA snapshot : StoreForest(live.heap, snapshot, <<>>))

\* the calls made: a search for every term, a serialization, a restore of
\* every snapshot
ObjectCalls ==
    {<<"handleSearch", v>> : v \in SearchTerms}
       \cup {<<"simplifyFolderTree", <<>>>>}
       \cup {<<"restoreFolderTree", k>> : k \in SnapshotKinds}

ObjectCall(fileList, call) ==
    Then(WithForest(fileList),
      LAMBDA live :
        CASE call[1] = "handleSearch" ->
                [fn |-> call[1], heap |-> live.heap, folders |-> live.addr,
                 value |-> call[2]]
          [] call[1] = "simplifyFolderTree" ->
                [fn |-> call[1], heap |-> live.heap, folders |-> live.addr]
          [] call[1] = "restoreFolderTree" ->
                Then(WithSnapshot(live, fileList, call[2]),
                  LAMBDA parsed :
                    [fn |-> call[1], heap |-> parsed.heap, folders |-> live.addr,
                     simplifiedTree |-> parsed.addr]))

ObjectsInit ==
    /\ args \in {ObjectCall(b, call) : b \in FileLists(ObjectFiles, MaxBatch),
                                       call \in ObjectCalls}
    /\ result = <<>>
    /\ pc = "call"
    /\ IdleComponent

SearchObjects ==
    /\ pc = "call"
    /\ args.fn = "handleSearch"
    /\ result' = searchObjects(args.heap, args.folders, args.value)
    /\ pc' = "return"
    /\ UNCHANGED <<args, compVars>>

SimplifyObjects ==
    /\ pc = "call"
    /\ args.fn = "simplifyFolderTree"
    /\ result' = simplifyFolderTreeObjects(args.heap, args.folders)
    /\ pc' = "return"
    /\ UNCHANGED <<args, compVars>>

RestoreObjects ==
    /\ pc = "call"
    /\ args.fn = "restoreFolderTree"
    /\ result' = restoreFolderTreeObjects(args.heap, args.simplifiedTree)
    /\ pc' = "return"
    /\ UNCHANGED <<args, compVars>>

ObjectsNext == SearchObjects \/ SimplifyObjects \/ RestoreObjects

SpecObjects == ObjectsInit /\ [][ObjectsNext]_vars

-----------------------------------------------------------------------------
(* The App component (the playlist) and the object URLs of the VideoPlayer *)

\* most object URLs made in a run
MaxURLs == 3

\* the largest currentTime a timeupdate event reports
MaxPlayedTime == 1

\* a VideoFile object as the FileExplorer hands it to onVideoSelect; object
\* stands for the identity of the object, which is what React compares
VideoObject(object, relativePath, size) ==
    [object |-> object, file |-> DirFile(relativePath, size, "video/mp4"),
     name |-> DirFile(relativePath, size, "video/mp4").name,
     path |-> relativePath, size |-> size]

\* the videos chosen: a video, the same video in another object (every click
\* on the tree makes one), a video of the same folder, and a video with the
\* name of the first in another folder
VideoObjects ==
    { VideoObject(1, <<"A", "/", "a">> \o MP4, 1),
      VideoObject(2, <<"A", "/", "a">> \o MP4, 1),
      VideoObject(3, <<"A", "/", "b">> \o MP4, 2),
      VideoObject(4, <<"B", "/", "a">> \o MP4, 3) }

\* a plausible slip: the playlist is not looked through, every video is new
findIndex_NeverFound(list, video) == -1

\* playlist.findIndex(item => item.video.path === video.path &&
\* item.video.name === video.name): the first index, from 0, or -1
findIndex(list, video) ==
    LET found == {i \in 1..Len(list) :
                     list[i].video.path = video.path /\ list[i].video.name = video.name}
    IN IF found = {} THEN -1
       ELSE (CHOOSE i \in found : \A j \in found : i <= j) - 1

\* { ...item, playedTime: currentTime }
WithPlayedTime(item, currentTime) ==
    [f \in (DOMAIN item) \cup {"playedTime"} |->
        IF f = "playedTime" THEN currentTime ELSE item[f]]

\* the object URLs in a value of objectURL: none for null
URLsOf(url) == {url[k] : k \in 1..Len(url)}

\* the VideoPlayer after App has rendered with a video: the effect of
\* [currentVideo] runs when the video is another object than before.  The
\* cleanup of the last run comes first, then the effect; both revoke the
\* objectURL of the render they were made in.  The render that setObjectURL
\* brings about runs no effect.
VideoPlayerEffect(video) ==
    IF currentVideo = <<video>>
    THEN UNCHANGED playerVars
    ELSE /\ created < MaxURLs
         /\ revoked' = revoked \cup URLsOf(cleanupURL) \cup URLsOf(objectURL)
         /\ created' = created + 1
         /\ objectURL' = <<created + 1>>
         /\ cleanupURL' = objectURL
         /\ UNCHANGED playerMounted

\* what the App holds, kept for the step that follows
AppState == [currentVideo |-> currentVideo, playlist |-> playlist,
             currentIndex |-> currentIndex]

\* the FileExplorer and the call variables are not in use
AppIdle ==
    UNCHANGED <<folders, searchTerm, searchResults, lastFolderPath, localStorage,
                now, alerted, played, callVars>>

\* handleVideoSelect: a video of the playlist is played where it stands, a
\* new one is put at the end
HandleVideoSelect(video) ==
    /\ playerMounted
    /\ LET existingIndex == findIndex(playlist, video)
           newPlaylist == Append(playlist, [id |-> <<now, Len(playlist)>>,
                                            video |-> video, isPlaying |-> FALSE])
       IN IF existingIndex # -1
          THEN /\ currentIndex' = existingIndex
               /\ UNCHANGED playlist
          ELSE /\ playlist' = newPlaylist
               /\ currentIndex' = Len(newPlaylist) - 1
    /\ currentVideo' = <<video>>
    /\ VideoPlayerEffect(video)
    /\ lastEvent' = [op |-> "videoSelect", before |-> AppState]
    /\ AppIdle

\* handleVideoEnd: the ended event of the video element
HandleVideoEnd ==
    /\ playerMounted
    /\ currentVideo # <<>>
    /\ IF currentIndex < Len(playlist) - 1
       THEN /\ currentIndex' = currentIndex + 1
            /\ currentVideo' = <<playlist[currentIndex + 2].video>>
            /\ VideoPlayerEffect(playlist[currentIndex + 2].video)
       ELSE UNCHANGED <<currentIndex, currentVideo, playerVars>>
    /\ UNCHANGED playlist
    /\ lastEvent' = [op |-> "videoEnd", before |-> AppState]
    /\ AppIdle

\* handleTimeUpdate: the timeupdate event of the video element
HandleTimeUpdate(currentTime) ==
    /\ playerMounted
    /\ currentVideo # <<>>
    /\ IF currentIndex >= 0 /\ currentIndex < Len(playlist)
       THEN playlist' = [playlist EXCEPT ![currentIndex + 1] =
                            WithPlayedTime(@, currentTime)]
       ELSE UNCHANGED playlist
    /\ UNCHANGED <<currentIndex, currentVideo, playerVars>>
    /\ lastEvent' = [op |-> "timeUpdate", before |-> AppState]
    /\ AppIdle

\* the VideoPlayer is unmounted: the cleanup of the last effect run is called
Unmount ==
    /\ playerMounted
    /\ playerMounted' = FALSE
    /\ revoked' = revoked \cup URLsOf(cleanupURL)
    /\ UNCHANGED <<objectURL, cleanupURL, created, appVars>>
    /\ lastEvent' = [op |-> "unmount", before |-> AppState]
    /\ AppIdle

AppInit ==
    /\ IdleComponent
    /\ args = [fn |-> "none"]
    /\ result = <<>>
    /\ pc = "idle"

AppNext ==
    \/ \E video \in VideoObjects : HandleVideoSelect(video)
    \/ HandleVideoEnd
    \/ \E currentTime \in 0..MaxPlayedTime : HandleTimeUpdate(currentTime)
    \/ Unmount

SpecApp == AppInit /\ [][AppNext]_vars

-----------------------------------------------------------------------------
(* Notions the properties are stated with *)

\* a path with its final "/"-segment removed; "" for a path without "/"
DirName(path) == IF LastIndexOf(path, "/") = 0 THEN <<>>
                 ELSE SubSeq(path, 1, LastIndexOf(path, "/") - 1)

\* the rearrangements of the positions 1..n
Permutations1(n) == {p \in [1..n -> 1..n] : \A i, j \in 1..n : i # j => p[i] # p[j]}

\* the numbers n for which the name holds DI, the digits of n and a unit in a row
LabelledNumbers(s) ==
    {parseInt(SubSeq(s, ij[1] + 1, ij[2])) :
        ij \in {x \in (1..Len(s)) \X (1..Len(s)) :
                  /\ x[1] < x[2]
                  /\ s[x[1]] = "DI"
                  /\ \A k \in (x[1] + 1)..x[2] : s[k] \in Digit
                  /\ x[2] + 1 <= Len(s)
                  /\ s[x[2] + 1] \in {"JIE", "ZHANG", "KE"}}}

\* the positions i..j of the first digit run of a name
FirstDigitRuns(s) ==
    {x \in (1..Len(s)) \X (1..Len(s)) :
        /\ x[1] <= x[2]
        /\ \A k \in 1..(x[1] - 1) : s[k] \notin Digit
        /\ \A k \in x[1]..x[2] : s[k] \in Digit
        /\ (x[2] = Len(s) \/ s[x[2] + 1] \notin Digit)}

\* two items the natural sort does not tell apart
SameRank(a, b) ==
    /\ extractNumberFromFileName(a.name) = extractNumberFromFileName(b.name)
    /\ extractNumberFromFileName(a.name) = Infinity => localeCompare(a.name, b.name) = 0

Sign(n) == IF n < 0 THEN -1 ELSE IF n > 0 THEN 1 ELSE 0

\* a term that is empty or holds white space only
IsBlank(term) == \A i \in 1..Len(term) : term[i] \in WhiteSpace

\* a list no item of which has to come before an earlier one
NaturallySorted(list) ==
    \A i, j \in 1..Len(list) : i < j => compareByNumber(list[i], list[j]) <= 0

\* the names of the items of a list
Names(list) == [i \in 1..Len(list) |-> list[i].name]

\* the folder segments of the path of a file: all segments but the last
FolderSegments(file) ==
    LET parts == Split(FileItem(file).path) IN SubSeq(parts, 1, Len(parts) - 1)

\* the folder nodes of a forest in pre-order, every occurrence counted
RECURSIVE NodeSeq(_)
NodeSeq(forest) ==
    IF Len(forest) = 0 THEN <<>>
    ELSE <<forest[1]>> \o NodeSeq(forest[1].children) \o NodeSeq(Tail(forest))

\* the number of folder nodes on the longest chain from a root downwards
RECURSIVE Depth(_)
Depth(forest) ==
    IF Len(forest) = 0 THEN 0
    ELSE LET d == {1 + Depth(forest[i].children) : i \in 1..Len(forest)}
         IN CHOOSE m \in d : \A n \in d : n <= m

\* what is wrong with the snapshot kept in a storage at a time: it is not
\* there, it is no JSON, a property or the name or path of a folder is not
\* there, or it is older than the retention window
SnapshotMissing(storage) == FOLDER_CONTENT_CACHE_KEY \notin DOMAIN storage
SnapshotGarbled(storage) ==
    ~SnapshotMissing(storage) /\ ~Has(storage[FOLDER_CONTENT_CACHE_KEY], "json")
SnapshotMisshapen(storage) ==
    /\ ~SnapshotMissing(storage) /\ ~SnapshotGarbled(storage)
    /\ LET record == storage[FOLDER_CONTENT_CACHE_KEY].json
       IN \/ ~Has(record, "folderTree")
          \/ ~Has(record, "timestamp")
          \/ \E folder \in {record.folderTree[i] : i \in 1..Len(record.folderTree)} :
                ~Has(folder, "name") \/ ~Has(folder, "path")
SnapshotExpired(storage, clock) ==
    /\ ~SnapshotMissing(storage) /\ ~SnapshotGarbled(storage)
    /\ Has(storage[FOLDER_CONTENT_CACHE_KEY].json, "timestamp")
    /\ clock - storage[FOLDER_CONTENT_CACHE_KEY].json.timestamp > RetentionMs

\* a list property of a folder; no items when the property is not there
ListOf(folder, field) == IF Has(folder, field) THEN folder[field] ELSE <<>>

\* two lists of entries agree in the given properties, item by item
SameEntries(entries, kept, fields) ==
    /\ Len(entries) = Len(kept)
    /\ \A k \in 1..Len(kept) :
          /\ DOMAIN kept[k] = fields
          /\ \A f \in fields : kept[k][f] = entries[k][f]

\* the name holds the term somewhere, letters of either case taken as the same
ContainsIgnoringCase(name, term) ==
    \E at \in 0..(Len(name) - Len(term)) :
        \A k \in 1..Len(term) : toLowerCaseChar(name[at + k]) = toLowerCaseChar(term[k])

\* the video entries of a forest in depth-first pre-order: those of a folder,
\* then those of its children in turn
RECURSIVE PreOrderVideos(_)
PreOrderVideos(forest) ==
    IF Len(forest) = 0 THEN <<>>
    ELSE forest[1].videos \o PreOrderVideos(forest[1].children)
            \o PreOrderVideos(Tail(forest))

\* the items of a list, and how often an item is in it
Items(list) == {list[i] : i \in 1..Len(list)}
Count(list, x) == Cardinality({i \in 1..Len(list) : list[i] = x})

\* the folders of the builder's map that can be reached from a folder by one
\* or more child links
RECURSIVE ReachableFrom(_, _, _)
ReachableFrom(folderMap, frontier, seen) ==
    LET next == UNION {Items(folderMap[p].children) : p \in frontier}
    IN IF next \subseteq seen THEN seen
       ELSE ReachableFrom(folderMap, next \ seen, seen \cup next)

Descendants(folderMap, path) == ReachableFrom(folderMap, {path}, {})

\* the number of folder segments of the deepest path of a batch, and whether
\* a file of the batch has none
MaxSegments(fileList) ==
    LET lens == {Len(FolderSegments(fileList[i])) : i \in 1..Len(fileList)} \cup {0}
    IN CHOOSE m \in lens : \A n \in lens : n <= m
HasRootFile(fileList) ==
    \E i \in 1..Len(fileList) : Len(FolderSegments(fileList[i])) = 0

\* every folder of the forest, but those of the exempt paths, has a path
\* whose "/"-segments are the names of the folders above it, from its root
\* down, and its own
RECURSIVE PathsSpellChains(_, _, _)
PathsSpellChains(forest, namesAbove, exempt) ==
    \A i \in 1..Len(forest) :
        /\ forest[i].path \in exempt
              \/ Split(forest[i].path) = Append(namesAbove, forest[i].name)
        /\ PathsSpellChains(forest[i].children, Append(namesAbove, forest[i].name), exempt)

\* the sum of the lengths of a list of lists
RECURSIVE TotalLen(_)
TotalLen(lists) == IF Len(lists) = 0 THEN 0 ELSE Len(lists[1]) + TotalLen(Tail(lists))

\* two lists with the same items, each as often in one as in the other
IsPermutation(a, b) ==
    /\ Len(a) = Len(b)
    /\ \A x \in Items(a) \cup Items(b) : Count(a, x) = Count(b, x)

\* a path with no segments or with an empty one: empty, or with a leading, a
\* doubled or a trailing "/"
Malformed(path) ==
    \/ path = <<>>
    \/ path[1] = "/"
    \/ path[Len(path)] = "/"
    \/ \E i \in 1..(Len(path) - 1) : path[i] = "/" /\ path[i + 1] = "/"

\* the larger of two numbers
Max(a, b) == IF a >= b THEN a ELSE b

-----------------------------------------------------------------------------
(* The properties *)

\* C1: when the build of a folder selection succeeds and the write of the
\* snapshot throws, the forest in memory is the newly built one and no failed
\* build is reported.
C1_ForestSurvivesWriteFailure ==
    (lastEvent.op = "folderSelect" /\ lastEvent.fault # "none")
        => /\ folders = buildCompleteFolderTree(lastEvent.files)
           /\ alerted # "error"

\* C2: selecting an entry without a content handle, in the tree or in the
\* list of search results, asks for a new selection and plays nothing.
C2_HandlelessNeedsReselect ==
    (lastEvent.op \in {"treeSelect", "resultClick"} /\ ~Has(lastEvent.entry, "file"))
        => (alerted = "reselect" /\ played = Null)

\* C3: serializing, restoring and serializing again gives the first snapshot
\* back, for every forest, also one whose nodes lack isExpanded or allFiles.
C3_RoundTrip ==
    (pc = "return" /\ args.fn = "simplifyFolderTree")
        => result.again = result.snapshot

\* C4: every file entry of the built forest sits in the folder node whose
\* path is the entry's path with its final segment removed.
C4_EntryInItsFolder ==
    (pc = "return" /\ args.fn = "buildCompleteFolderTree")
        => \A folder \in NodesOf(result) :
              /\ \A k \in 1..Len(folder.allFiles) :
                    folder.path = DirName(folder.allFiles[k].path)
              /\ \A k \in 1..Len(folder.videos) :
                    folder.path = DirName(folder.videos[k].path)

\* C4 happens: a file two folders deep and a file of the root are both placed
C4_Witness ==
    /\ pc = "return" /\ args.fn = "buildCompleteFolderTree"
    /\ \E folder \in NodesOf(result) :
          folder.path = <<"A", "/", "s", "1">> /\ Len(folder.allFiles) = 1
    /\ \E folder \in NodesOf(result) :
          folder.path = <<>> /\ Len(folder.videos) = 1

\* C5: the built forest is the same for every order of the same batch.
C5_OrderIndependent ==
    (pc = "return" /\ args.fn = "buildCompleteFolderTree")
        => \A p \in Permutations1(Len(args.files)) :
              buildCompleteFolderTree([i \in 1..Len(args.files) |-> args.files[p[i]]])
                  = result

\* C6: the search returns nothing for a term that is empty or white space
\* only, whatever the forest.
C6_BlankTermFindsNothing ==
    (pc = "return" /\ args.fn = "search" /\ IsBlank(args.value)) => result = <<>>

\* C6 happens: a blank is searched in a forest with a video name that holds one
C6_Witness ==
    /\ pc = "return"
    /\ args.fn = "search"
    /\ args.value = <<" ">>
    /\ searchVideos(args.folders, args.value) # <<>>
    /\ result = <<>>

\* C7: the key of "episode10.mp4" is 10 and "intro.mp4" has no key.
C7_EpisodeAndIntroKeys ==
    (pc = "return" /\ args.fn = "extractNumberFromFileName")
        => /\ args.fileName = Episode10 => result = 10
           /\ args.fileName = Intro => result = Infinity

\* C8: episode10, episode2, intro are sorted to episode2, episode10, intro.
C8_EpisodeListSorted ==
    (pc = "return" /\ args.fn = "sortFilesByNumber" /\ args.files = EpisodeList)
        => [i \in 1..Len(result) |-> result[i].name] = <<Episode2, Episode10, Intro>>

\* C9: the comparator is a total preorder and the sort is stable: numbered
\* items come before unnumbered ones, numbered items ascend by key, unnumbered
\* items ascend by name, and items that compare equal keep their input order.
C9_StableNaturalSort ==
    (pc = "return" /\ args.fn = "sortFilesByNumber")
        => LET n == Len(args.files)
               key(x) == extractNumberFromFileName(x.name)
           IN /\ Len(result) = n
              /\ \A i, j \in 1..n : i < j =>
                    /\ key(result[i]) = Infinity => key(result[j]) = Infinity
                    /\ (key(result[i]) # Infinity /\ key(result[j]) # Infinity)
                          => key(result[i]) <= key(result[j])
                    /\ (key(result[i]) = Infinity /\ key(result[j]) = Infinity)
                          => localeCompare(result[i].name, result[j].name) <= 0
              /\ \A k \in 1..n :
                    SelectSeq(result, LAMBDA y : SameRank(y, args.files[k]))
                        = SelectSeq(args.files, LAMBDA y : SameRank(y, args.files[k]))
              /\ \A a, b, c \in {args.files[k] : k \in 1..n} :
                    /\ compareByNumber(a, a) = 0
                    /\ Sign(compareByNumber(a, b)) = -Sign(compareByNumber(b, a))
                    /\ (compareByNumber(a, b) <= 0 /\ compareByNumber(b, c) <= 0)
                          => compareByNumber(a, c) <= 0

\* C9 happens: two items of key 1 keep their order, ahead of an unnumbered one
C9_Witness ==
    /\ pc = "return"
    /\ args.fn = "sortFilesByNumber"
    /\ args.files = <<[name |-> <<"a">>, size |-> 1], [name |-> <<"b", "1">>, size |-> 1],
                      [name |-> <<"a", "1">>, size |-> 2]>>
    /\ result = <<[name |-> <<"b", "1">>, size |-> 1], [name |-> <<"a", "1">>, size |-> 2],
                  [name |-> <<"a">>, size |-> 1]>>

\* C10: a labelled number wins over any other digit run of the name, before
\* or after the label; without a label the key is the leading number, else
\* the first digit run anywhere, else there is none.
C10_PatternPriority ==
    (pc = "return" /\ args.fn = "extractNumberFromFileName")
        => LET s == args.fileName
           IN /\ LabelledNumbers(s) # {} => result \in LabelledNumbers(s)
              /\ (LabelledNumbers(s) = {} /\ Len(s) > 0 /\ s[1] \in Digit)
                    => \E x \in FirstDigitRuns(s) :
                          x[1] = 1 /\ result = parseInt(SubSeq(s, 1, x[2]))
              /\ (LabelledNumbers(s) = {} /\ FirstDigitRuns(s) # {})
                    => \E x \in FirstDigitRuns(s) :
                          result = parseInt(SubSeq(s, x[1], x[2]))
              /\ FirstDigitRuns(s) = {} => result = Infinity

\* C10 happens: a digit run stands before the label and the label decides
C10_Witness ==
    /\ pc = "return"
    /\ args.fn = "extractNumberFromFileName"
    /\ args.fileName = <<"1", "DI", "2", "JIE">>
    /\ result = 2

\* C11: in the built forest the root list and the children, videos and
\* allFiles of every folder at every depth are in natural-sort order.
C11_EveryListSorted ==
    (pc = "return" /\ args.fn = "buildCompleteFolderTree")
        => /\ NaturallySorted(result)
           /\ \A folder \in NodesOf(result) :
                 /\ NaturallySorted(folder.children)
                 /\ NaturallySorted(folder.videos)
                 /\ NaturallySorted(folder.allFiles)

\* C11 happens: the roots and the children of a folder arrive out of order
C11_Witness ==
    /\ pc = "return"
    /\ args.fn = "buildCompleteFolderTree"
    /\ BuiltFolders(args.files).rootFolders = <<<<"A">>, <<"t", "1">>>>
    /\ BuiltFolders(args.files).folderMap[<<"A">>].children
          = << <<"A", "/", "b">>, <<"A", "/", "s", "1">> >>
    /\ Names(result) = <<<<"t", "1">>, <<"A">>>>
    /\ Names(result[2].children) = <<<<"s", "1">>, <<"b">>>>

\* C12: a first-level folder made when the root node (path "") exists already
\* is a child of that root node and no forest root; made when no root node
\* exists, it is a forest root.
C12_FirstLevelUnderRoot ==
    (pc = "return" /\ args.fn = "buildCompleteFolderTree")
        => \A j \in 1..Len(args.files) :
              LET segs == FolderSegments(args.files[j])
                  isNew == \A i \in 1..(j - 1) :
                              \/ Len(FolderSegments(args.files[i])) = 0
                              \/ FolderSegments(args.files[i])[1] # segs[1]
                  rootBefore == \E i \in 1..(j - 1) :
                                   Len(FolderSegments(args.files[i])) = 0
                  isRoot == \E r \in 1..Len(result) : result[r].path = segs[1]
                  underRoot == \E r \in 1..Len(result) :
                                  /\ result[r].path = <<>>
                                  /\ \E c \in 1..Len(result[r].children) :
                                        result[r].children[c].path = segs[1]
              IN (Len(segs) > 0 /\ isNew)
                    => IF rootBefore THEN underRoot /\ ~isRoot ELSE isRoot /\ ~underRoot

\* C13: after the restore at mount the forest is empty when the stored
\* snapshot is missing, is no JSON, has the wrong shape or is older than the
\* retention window; the restore ends without an exception leaving it.
C13_BadSnapshotGivesEmptyForest ==
    (lastEvent.op = "mount"
        /\ (\/ SnapshotMissing(localStorage)
            \/ SnapshotGarbled(localStorage)
            \/ SnapshotMisshapen(localStorage)
            \/ SnapshotExpired(localStorage, now)))
        => folders = <<>>

\* C14: no record of the snapshot, at any depth, has a content handle, and
\* every folder is there with its name, path, children, videos (name, path,
\* size), allFiles (name, path, size, isVideo) and isExpanded.
C14_SnapshotHandleFree ==
    (pc # "call" /\ args.fn = "simplifyFolderTree")
        => LET live == NodeSeq(args.folders)
               kept == NodeSeq(result.snapshot)
           IN /\ Len(kept) = Len(live)
              /\ \A i \in 1..Len(kept) :
                    /\ ~Has(kept[i], "file")
                    /\ \A k \in 1..Len(kept[i].videos) : ~Has(kept[i].videos[k], "file")
                    /\ \A k \in 1..Len(kept[i].allFiles) : ~Has(kept[i].allFiles[k], "file")
                    /\ kept[i].name = live[i].name
                    /\ kept[i].path = live[i].path
                    /\ Names(kept[i].children) = Names(live[i].children)
                    /\ SameEntries(live[i].videos, kept[i].videos, {"name", "path", "size"})
                    /\ SameEntries(ListOf(live[i], "allFiles"), kept[i].allFiles,
                                   {"name", "path", "size", "isVideo"})
                    /\ Has(kept[i], "isExpanded") = Has(live[i], "isExpanded")
                    /\ Has(live[i], "isExpanded") => kept[i].isExpanded = live[i].isExpanded

\* C14 happens: a forest with a video two folders deep and a file of the root,
\* both with their content handles, is serialized
C14_Witness ==
    /\ pc = "simplified"
    /\ args.fn = "simplifyFolderTree"
    /\ \E folder \in NodesOf(args.folders) :
          /\ folder.path = <<"A", "/", "b">>
          /\ Len(folder.videos) = 1
          /\ Has(folder.videos[1], "file")
          /\ Has(folder, "isExpanded")
    /\ \E folder \in NodesOf(args.folders) :
          /\ folder.path = <<>>
          /\ Has(folder, "allFiles") /\ Len(folder.allFiles) = 1
          /\ Has(folder.allFiles[1], "file")
    /\ Len(NodeSeq(result.snapshot)) = 3

\* C15: for a term that is not blank the search returns exactly the entries
\* of the videos lists, of folders at every depth, whose name holds the term
\* ignoring case: each of them once, and nothing else.
C15_ExactlyTheMatchingVideos ==
    (pc = "return" /\ args.fn = "search" /\ ~IsBlank(args.value))
        => LET videos == PreOrderVideos(args.folders)
           IN /\ Items(result)
                    = {v \in Items(videos) : ContainsIgnoringCase(v.name, args.value)}
              /\ \A v \in Items(result) : Count(result, v) = Count(videos, v)

\* C15 happens: a term in capitals finds a video of the root and one two
\* folders deep, in a forest that also holds a file that is no video
C15_Witness ==
    /\ pc = "return"
    /\ args.fn = "search"
    /\ args.value = <<"M", "p">>
    /\ Names(result) = <<<<"a">> \o MP4, <<"B">> \o MP4>>
    /\ result[1].path = <<"A", "/", "b", "/", "a">> \o MP4
    /\ \E folder \in NodesOf(args.folders) :
          \E k \in 1..Len(folder.allFiles) : ~folder.allFiles[k].isVideo

\* C16: the list returned by the search is in natural-sort order: it is the
\* matches in depth-first pre-order, sorted stably.
C16_ResultsSorted ==
    (pc = "return" /\ args.fn = "search" /\ ~IsBlank(args.value))
        => LET collected == SelectSeq(PreOrderVideos(args.folders),
                                      LAMBDA v : ContainsIgnoringCase(v.name, args.value))
           IN /\ NaturallySorted(result)
              /\ \A x \in Items(collected) :
                    SelectSeq(result, LAMBDA y : SameRank(y, x))
                        = SelectSeq(collected, LAMBDA y : SameRank(y, x))

\* C16 happens: the walk meets a video without a number ahead of numbered
\* ones, and the list returned has the numbered ones first
C16_Witness ==
    /\ pc = "return"
    /\ args.fn = "search"
    /\ args.value = <<"m", "P">>
    /\ Len(result) = 3
    /\ ~NaturallySorted(searchVideos(args.folders, args.value))
    /\ NaturallySorted(result)

\* C17 as stated: the built forest has no cycle and its depth is the largest
\* number of folder segments of a path of the batch, also when every file of
\* the batch lies directly under the root.
C17_DepthIsMaxSegments ==
    (pc = "return" /\ args.fn = "buildCompleteFolderTree")
        => /\ \A p \in DOMAIN BuiltFolders(args.files).folderMap :
                 p \notin Descendants(BuiltFolders(args.files).folderMap, p)
           /\ Depth(result) = MaxSegments(args.files)

\* C17 amended: the built forest has no cycle and its depth is the largest
\* number of folder segments of a path of the batch, or 1 when the batch has
\* a file directly under the root and no path with a folder segment (then
\* the forest is the root node alone).
C17_DepthCountsRootNode ==
    (pc = "return" /\ args.fn = "buildCompleteFolderTree")
        => /\ \A p \in DOMAIN BuiltFolders(args.files).folderMap :
                 p \notin Descendants(BuiltFolders(args.files).folderMap, p)
           /\ Depth(result) = Max(MaxSegments(args.files),
                                   IF HasRootFile(args.files) THEN 1 ELSE 0)

\* C17 happens: a batch of two files, both directly under the root, gives the
\* root node alone
C17_Witness ==
    /\ pc = "return"
    /\ args.fn = "buildCompleteFolderTree"
    /\ Len(args.files) = 2
    /\ MaxSegments(args.files) = 0
    /\ Len(result) = 1
    /\ result[1].path = <<>>
    /\ Depth(result) = 1

\* C18: no two folder nodes of the built forest have the same path, and every
\* folder the builder made is in the forest once: as one root or as a child
\* of one parent.
C18_EveryFolderOnce ==
    (pc = "return" /\ args.fn = "buildCompleteFolderTree")
        => LET st == BuiltFolders(args.files)
               nodes == NodeSeq(result)
               links(p) == Count(st.rootFolders, p)
                           + Cardinality({x \in (DOMAIN st.folderMap) \X (1..Len(args.files)) :
                                 /\ x[2] <= Len(st.folderMap[x[1]].children)
                                 /\ st.folderMap[x[1]].children[x[2]] = p})
           IN /\ \A i, j \in 1..Len(nodes) : i # j => nodes[i].path # nodes[j].path
              /\ \A p \in DOMAIN st.folderMap : links(p) = 1
              /\ {nodes[i].path : i \in 1..Len(nodes)} = DOMAIN st.folderMap

\* C18 happens: folders s1 and A/s1, of the same name, and the root node
C18_Witness ==
    /\ pc = "return"
    /\ args.fn = "buildCompleteFolderTree"
    /\ {n.path : n \in NodesOf(result)}
          = {<<>>, <<"A">>, <<"A", "/", "s", "1">>, <<"s", "1">>}
    /\ Len(NodeSeq(result)) = 4

\* C19 as stated: for every folder node of the built forest the "/"-segments
\* of its path are the folder names on the chain from its forest root down to
\* the node itself.
C19_PathSpellsChain ==
    (pc = "return" /\ args.fn = "buildCompleteFolderTree")
        => PathsSpellChains(result, <<>>, {})

\* C19 amended: the same for every folder node but the root node, whose path
\* is "" and whose name is the fixed placeholder.
C19_PathSpellsChainBelowRootNode ==
    (pc = "return" /\ args.fn = "buildCompleteFolderTree")
        => /\ PathsSpellChains(result, <<>>, {<<>>})
           /\ \A folder \in NodesOf(result) :
                 folder.path = <<>> => folder.name = RootName /\ folder.children = <<>>

\* C19 happens: a folder two levels deep, beside the root node
C19_Witness ==
    /\ pc = "return"
    /\ args.fn = "buildCompleteFolderTree"
    /\ \E r \in 1..Len(result) :
          /\ result[r].name = <<"A">>
          /\ \E c \in 1..Len(result[r].children) :
                /\ result[r].children[c].name = <<"s", "1">>
                /\ result[r].children[c].path = <<"A", "/", "s", "1">>
    /\ \E r \in 1..Len(result) : result[r].path = <<>> /\ result[r].name = RootName

\* C20: every file of the batch is once in the allFiles of one folder of the
\* built forest and nowhere else, every video is besides once in the videos
\* of that folder, and the sort leaves every list with the items it had.
C20_NothingLostOrDoubled ==
    (pc = "return" /\ args.fn = "buildCompleteFolderTree")
        => LET nodes == NodeSeq(result)
               st == BuiltFolders(args.files)
               holders(f) == {i \in 1..Len(nodes) :
                                \E k \in 1..Len(nodes[i].allFiles) :
                                    nodes[i].allFiles[k].file = f}
               showers(f) == {i \in 1..Len(nodes) :
                                \E k \in 1..Len(nodes[i].videos) :
                                    nodes[i].videos[k].file = f}
           IN /\ \A j \in 1..Len(args.files) :
                    LET f == args.files[j]
                    IN /\ Cardinality(holders(f)) = 1
                       /\ showers(f) = IF isVideoFile(f) THEN holders(f) ELSE {}
              /\ TotalLen([i \in 1..Len(nodes) |-> nodes[i].allFiles]) = Len(args.files)
              /\ TotalLen([i \in 1..Len(nodes) |-> nodes[i].videos])
                    = Cardinality({j \in 1..Len(args.files) : isVideoFile(args.files[j])})
              /\ \A i \in 1..Len(nodes) :
                    /\ IsPermutation(nodes[i].allFiles, st.folderMap[nodes[i].path].allFiles)
                    /\ IsPermutation(nodes[i].videos, st.folderMap[nodes[i].path].videos)
                    /\ IsPermutation([c \in 1..Len(nodes[i].children) |->
                                         nodes[i].children[c].path],
                                     st.folderMap[nodes[i].path].children)
              /\ IsPermutation([r \in 1..Len(result) |-> result[r].path], st.rootFolders)

\* C20 happens: videos and another file, in the root node and in a folder,
\* the videos of the folder moved by the sort
C20_Witness ==
    /\ pc = "return"
    /\ args.fn = "buildCompleteFolderTree"
    /\ Len(args.files) = 3
    /\ \E folder \in NodesOf(result) :
          /\ folder.path = <<"A">>
          /\ Len(folder.videos) = 2
          /\ folder.videos # BuiltFolders(args.files).folderMap[<<"A">>].videos
    /\ \E folder \in NodesOf(result) :
          folder.path = <<>> /\ Len(folder.allFiles) = 1 /\ Len(folder.videos) = 0

\* C21: a file whose path is empty or has an empty segment is attached to the
\* root node of the forest, the node with path "" and the placeholder name.
C21_MalformedPathsGoToRoot ==
    (pc = "return" /\ args.fn = "buildCompleteFolderTree")
        => \A j \in 1..Len(args.files) :
              Malformed(FileItem(args.files[j]).path)
                 => \E r \in 1..Len(result) :
                       /\ result[r].path = <<>>
                       /\ result[r].name = RootName
                       /\ \E k \in 1..Len(result[r].allFiles) :
                             result[r].allFiles[k].file = args.files[j]

-----------------------------------------------------------------------------
\* the batch of the worked example: two labelled videos of folder A, the
\* second lesson first, and a video without a folder
Lesson1 == DirFile(<<"A", "/", "DI", "1", "JIE">> \o MP4, 4, "video/mp4")
Lesson2 == DirFile(<<"A", "/", "DI", "2", "JIE">> \o MP4, 3, "video/mp4")
LooseB == BareFile(<<"B">> \o MP4, 7, "video/mp4")
ExampleBatch == <<Lesson2, Lesson1, LooseB>>

\* C22: the build of [A/DI2JIE.mp4, A/DI1JIE.mp4, B.mp4] has exactly two roots,
\* folder A whose videos are lesson 1 then lesson 2, and the root node that
\* holds B.mp4; the videos of A are those of the build of A's files alone.
C22_ExampleForest ==
    (pc = "return" /\ args.fn = "buildCompleteFolderTree" /\ args.files = ExampleBatch)
        => /\ Len(result) = 2
           /\ \E a, r \in 1..2 :
                 /\ a # r
                 /\ result[a].name = <<"A">> /\ result[a].path = <<"A">>
                 /\ Names(result[a].videos) = <<Lesson1.name, Lesson2.name>>
                 /\ result[a].videos =
                       buildCompleteFolderTree(<<Lesson2, Lesson1>>)[1].videos
                 /\ result[a].children = <<>>
                 /\ result[r].name = RootName /\ result[r].path = <<>>
                 /\ Names(result[r].videos) = <<LooseB.name>>
                 /\ result[r].videos[1].file = LooseB
                 /\ result[r].children = <<>>

C22_Witness ==
    /\ pc = "return" /\ args.fn = "buildCompleteFolderTree"
    /\ args.files = ExampleBatch
    /\ Len(result) = 2
    /\ \E a \in 1..2 : Names(result[a].videos) = <<Lesson1.name, Lesson2.name>>

-----------------------------------------------------------------------------
\* C24: in a built forest every first-level folder of the batch is a forest
\* root, whether the root node (path "") was made before or after it; the root
\* node has no children and holds only files without a folder segment, and no
\* folder below a root is a first-level folder or the root node.
C24_OneRootPolicy ==
    (pc = "return" /\ args.fn = "buildCompleteFolderTree")
        => /\ \A j \in 1..Len(args.files) :
                 LET segs == FolderSegments(args.files[j])
                 IN Len(segs) > 0
                       => \E r \in 1..Len(result) :
                             result[r].path = segs[1] /\ result[r].name = segs[1]
           /\ \A r \in 1..Len(result) :
                 result[r].path = <<>>
                    => /\ result[r].children = <<>>
                       /\ \A k \in 1..Len(result[r].allFiles) :
                             FolderSegments(result[r].allFiles[k].file) = <<>>
           /\ \A r \in 1..Len(result) :
                 LET below == NodeSeq(result[r].children)
                 IN \A n \in 1..Len(below) : Len(Split(below[n].path)) >= 2

\* a file without a folder came first, a file of a folder after it, and the
\* reverse: both builds are reached (the second file decides which)
C24_Witness ==
    /\ pc = "return" /\ args.fn = "buildCompleteFolderTree"
    /\ Len(args.files) >= 2
    /\ FolderSegments(args.files[1]) = <<>>
    /\ Len(FolderSegments(args.files[2])) > 0
    /\ \E r, f \in 1..Len(result) :
          /\ result[r].path = <<>> /\ result[r].name = RootName
          /\ result[r].children = <<>>
          /\ result[f].path = FolderSegments(args.files[2])[1]

-----------------------------------------------------------------------------
\* the entries of a list that are videos, in the order of the list, each with
\* the properties a video of a folder has
VideosAmong(allFiles) ==
    LET kept == SelectSeq(allFiles, LAMBDA f : f.isVideo)
    IN [k \in 1..Len(kept) |-> [file |-> kept[k].file, name |-> kept[k].name,
                                path |-> kept[k].path, size |-> kept[k].size]]

\* C28: in every folder of a built forest the videos are the entries of
\* allFiles that are videos, with the same name, path and size and in the
\* same order.
C28_VideosAreTheVideoFiles ==
    (pc = "return" /\ args.fn = "buildCompleteFolderTree")
        => \A n \in 1..Len(NodeSeq(result)) :
              NodeSeq(result)[n].videos = VideosAmong(NodeSeq(result)[n].allFiles)

\* a folder with two videos and a file that is none, the videos not next to
\* each other in allFiles
C28_Witness ==
    /\ pc = "return" /\ args.fn = "buildCompleteFolderTree"
    /\ \E n \in 1..Len(NodeSeq(result)) :
          LET folder == NodeSeq(result)[n]
          IN /\ Len(folder.videos) >= 2
             /\ Len(folder.allFiles) > Len(folder.videos)
             /\ \E k \in 1..Len(folder.allFiles) : folder.allFiles[k].file.type = ""
                                                       /\ folder.allFiles[k].isVideo

-----------------------------------------------------------------------------
\* the two records a storage holds are those one selection of a FileList
\* writes: the folder name and the file count of the list, its snapshot, and
\* one time
OfOneSelection(storage, fileList) ==
    LET meta == JSONparse(storage[FOLDER_CACHE_KEY])
        content == JSONparse(storage[FOLDER_CONTENT_CACHE_KEY])
        written == saveFolderToCache(<<>>, fileList, buildCompleteFolderTree(fileList),
                                     meta.timestamp, <<>>, "none").storage
    IN /\ storage[FOLDER_CACHE_KEY] = written[FOLDER_CACHE_KEY]
       /\ storage[FOLDER_CONTENT_CACHE_KEY] = written[FOLDER_CONTENT_CACHE_KEY]

\* C25: whenever the storage holds both records, the metadata record and the
\* content record are those of one selection, also after selections whose
\* write threw.
C25_RecordsOfOneSelection ==
    ({FOLDER_CACHE_KEY, FOLDER_CONTENT_CACHE_KEY} \subseteq DOMAIN localStorage)
        => \E fileList \in FileLists(CompFiles, MaxSelect) \ {<<>>} :
              OfOneSelection(localStorage, fileList)

-----------------------------------------------------------------------------
\* a record is kept under a key and can be read; the snapshot has a forest;
\* the age of the snapshot is a number within the retention window
RecordPresent(storage, key) == key \in DOMAIN storage /\ CanParse(storage[key])
SnapshotHasForest(storage) ==
    /\ RecordPresent(storage, FOLDER_CONTENT_CACHE_KEY)
    /\ Has(JSONparse(storage[FOLDER_CONTENT_CACHE_KEY]), "folderTree")
SnapshotFresh(storage, clock) ==
    /\ RecordPresent(storage, FOLDER_CONTENT_CACHE_KEY)
    /\ Has(JSONparse(storage[FOLDER_CONTENT_CACHE_KEY]), "timestamp")
    /\ clock - JSONparse(storage[FOLDER_CONTENT_CACHE_KEY]).timestamp <= RetentionMs

\* C26: the mount restores the forest exactly when the metadata record is
\* there, the content record is there with a forest, and the age of the
\* content record is at most the retention window; otherwise the forest stays
\* empty.
C26_RestoredExactlyWhen ==
    (lastEvent.op = "mount")
        => /\ lastEvent.restored
                 <=> /\ RecordPresent(localStorage, FOLDER_CACHE_KEY)
                     /\ SnapshotHasForest(localStorage)
                     /\ SnapshotFresh(localStorage, now)
           /\ ~lastEvent.restored => folders = <<>>

-----------------------------------------------------------------------------
\* C27: at every moment searchResults is what the search of the current term
\* in the current forest gives: nothing for a blank term, else the matching
\* videos of the forest in natural-sort order; no entry of a forest that was
\* replaced is left in it.
C27_ResultsOfCurrentForest ==
    /\ searchResults = search(folders, searchTerm)
    /\ \A i \in 1..Len(searchResults) :
          \E n \in 1..Len(NodeSeq(folders)) :
             \E k \in 1..Len(NodeSeq(folders)[n].videos) :
                NodeSeq(folders)[n].videos[k] = searchResults[i]

\* a search with a term that is not blank has found a video
C27_Witness ==
    /\ lastEvent.op = "search"
    /\ ~IsBlank(searchTerm)
    /\ Len(searchResults) > 0

-----------------------------------------------------------------------------
\* the folder objects of the array of folders at an address, at every depth
RECURSIVE FolderObjects(_, _)
FolderObjects(heap, addr) ==
    UNION {{heap[addr].items[i]} \cup FolderObjects(heap, heap[heap[addr].items[i]].children) :
              i \in 1..Len(heap[addr].items)}

\* C23: a search and a serialization leave every object of the forest as it
\* was; a restore makes the folders of its forest anew and leaves every object
\* of the snapshot and of the forest there is as it was.  Each returns what the
\* function on values returns.
C23_ForestLeftAsItWas ==
    (pc = "return" /\ args.fn \in {"handleSearch", "simplifyFolderTree", "restoreFolderTree"}
                   /\ Has(args, "heap"))
        => /\ SubSeq(result.heap, 1, Len(args.heap)) = args.heap
           /\ LoadForest(result.heap, args.folders) = LoadForest(args.heap, args.folders)
           /\ args.fn = "handleSearch"
                 => LoadEntries(result.heap, result.addr)
                       = search(LoadForest(args.heap, args.folders), args.value)
           /\ args.fn = "simplifyFolderTree"
                 => LoadForest(result.heap, result.addr)
                       = simplifyFolderTree(LoadForest(args.heap, args.folders))
           /\ args.fn = "restoreFolderTree"
                 => /\ LoadForest(result.heap, result.addr)
                          = restoreFolderTree(LoadForest(args.heap, args.simplifiedTree))
                    /\ LoadForest(result.heap, args.simplifiedTree)
                          = LoadForest(args.heap, args.simplifiedTree)
                    /\ result.addr > Len(args.heap)
                    /\ \A a \in FolderObjects(result.heap, result.addr) : a > Len(args.heap)

\* a serialization of a forest whose videos have content handles has returned
C23_Witness ==
    /\ pc = "return" /\ args.fn = "simplifyFolderTree" /\ Has(args, "heap")
    /\ \E a \in 1..Len(args.heap) : Has(args.heap[a], "file")
    /\ \E a \in FolderObjects(result.heap, result.addr) :
          Len(result.heap[result.heap[a].videos].items) > 0

-----------------------------------------------------------------------------
\* C29: no two items of the playlist have the same path and name; either
\* there is no current video and currentIndex is -1, or currentIndex is an
\* index of the playlist and the item there has the path and the name of the
\* current video; a video that ends as the last of the playlist changes
\* neither the playlist nor the current video nor currentIndex.
C29_PlaylistInvariant ==
    /\ \A i, j \in 1..Len(playlist) :
          (playlist[i].video.path = playlist[j].video.path
              /\ playlist[i].video.name = playlist[j].video.name) => i = j
    /\ \/ currentIndex = -1 /\ currentVideo = <<>>
       \/ /\ currentVideo # <<>>
          /\ 0 <= currentIndex /\ currentIndex < Len(playlist)
          /\ playlist[currentIndex + 1].video.path = currentVideo[1].path
          /\ playlist[currentIndex + 1].video.name = currentVideo[1].name
    /\ (lastEvent.op = "videoEnd"
           /\ lastEvent.before.currentIndex = Len(lastEvent.before.playlist) - 1)
          => AppState = lastEvent.before

\* a video ended as the last of a playlist of two, the current video being
\* another object than the one kept in the playlist
C29_Witness ==
    /\ lastEvent.op = "videoEnd"
    /\ Len(playlist) >= 2
    /\ lastEvent.before.currentIndex = Len(playlist) - 1
    /\ currentVideo[1] # playlist[currentIndex + 1].video

\* C30: once the VideoPlayer is unmounted, every object URL it made has been
\* revoked.
C30_RevokedOnceUnmounted ==
    ~playerMounted => \A url \in 1..created : url \in revoked

=============================================================================
